---- MODULE Spec2Model ----
(***************************************************************************)
(* Multi-layer cache hierarchy of enterprise-copilot.                      *)
(*                                                                         *)
(*   CacheOrchestrator.query : Layer 0 (ExactCache, Redis)                 *)
(*                          -> Layer 1 (SemanticCache, Qdrant)             *)
(*                          -> Layer 2 (RAGCache, Qdrant)                  *)
(*                          -> LLMManager.generate_response                *)
(*                                                                         *)
(* Every call to a collaborator (Redis, Qdrant, the embedding model, the   *)
(* LLM backend) is one step of the worker that runs the query; its outcome *)
(* (value, exception) is chosen nondeterministically.  The FastAPI         *)
(* handlers are `async def` bodies that call the orchestrator without      *)
(* awaiting, so one server runs its requests one after the other: Spec     *)
(* starts a request only when no other request is in flight.               *)
(***************************************************************************)
EXTENDS Integers, Sequences, FiniteSets, TLC

\* ------------------------------------------------------------------ bounds
MaxPoints == 2          \* points kept in the semantic_cache collection
MaxChunks == 2          \* points kept in the rag_cache collection
MaxBatch == 2           \* documents in one add_documents_batch call
MaxLog == 3             \* Exact-Layer calls followed after one set
TickSeconds == 3600     \* seconds that pass in one Elapse step

\* ------------------------------------------------------- program constants
SemanticThreshold == 85 \* settings.semantic_similarity_threshold, in 1/100
RagThreshold == 75      \* settings.rag_similarity_threshold, in 1/100
CacheTTL == 3600        \* settings.cache_ttl, seconds
TopK == 3               \* RAGCache.get(query, top_k=3)
ChunkSize == 512        \* settings.chunk_size, tokens
EnableChunking == TRUE  \* settings.enable_chunking

\* ----------------------------------------------------------------- domains
\* Python None, as returned by the layers' get on a miss.
Null == "None"

\* The workers (server instances) that run requests; Spec is one server.
Procs == {"w1", "w2"}
Server == "w1"

\* qa = "What is a key characteristic of Python Lists?"
\* qb = "Can you tell me a key characteristic of Python Lists?"  (paraphrase)
Queries == {"qa", "qb"}

\* Texts a backend can generate; the empty string is a legal completion.
Responses == {"", "r1", "r2"}

\* Documents: "da" fits one chunk, "dl" is split in two.  Spec ingests dl.
Docs == {"da", "dl"}
SpecDocs == {"dl"}

\* The contents POST /api/documents accepts: any string, the empty one too.
RetrievalDocs == Docs \cup {""}

\* The metadata a caller attaches to a document: none (None or {}), a key
\* of its own, or a key the layer also writes.
NoMetadata == << >>
CallerMetadata ==
    {NoMetadata, [source |-> "manual"], [parent_doc_id |-> -1]}

\* Names under which providers get registered, and the names a request may
\* carry: None selects settings.default_llm, "ghost" is never registered.
ProviderNames == {"openai", "dummy"}
DefaultLLM == "openai"
Requested == {Null, "ghost"}

\* Python truthiness of an Optional[str]: None and "" are falsy.
Truthy(s) == s # Null /\ s # ""

Max(a, b) == IF a >= b THEN a ELSE b
Min(a, b) == IF a <= b THEN a ELSE b
Abs(a) == IF a >= 0 THEN a ELSE 0 - a

\* ------------------------------------------------------------- embeddings
\* SentenceTransformer.encode: a synthetic one-dimensional embedding space
\* in which similarity is controllable.  qa and qb are paraphrases that
\* score exactly the semantic threshold.  Document da is relevant to qb
\* only; the first chunk of dl is relevant to qb and scores exactly the
\* retrieval threshold for qa; its second chunk is relevant to qb only.
\* qc is a query close to qb that scores below the semantic threshold for qa.
Embed(text) ==
    CASE text = "qa" -> 0
      [] text = "qb" -> 3
      [] text = "qc" -> 4
      [] text = "da" -> 6
      [] text = "dl#0" -> 5
      [] text = "dl#1" -> 7
      [] text = "dl" -> 8
      [] OTHER -> 60

\* Qdrant's Distance.COSINE score of two vectors, in hundredths.
Score(u, v) == Max(0, 100 - 5 * Abs(u - v))

\* ------------------------------------------------------- Layer 0 (Redis)
\* hashlib.md5(query).hexdigest(): a fixed-length digest, distinct for the
\* distinct queries of the domain.
Md5(q) ==
    CASE q = "qa" -> 193
      [] q = "qb" -> 47
      [] OTHER -> 5

\* ExactCache._generate_key
GenerateKey(q) == <<"exact_cache", Md5(q)>>

Keys == {GenerateKey(q) : q \in Queries}

\* A Redis slot: ttl = 0 means the key does not exist.
NoEntry == [value |-> Null, ttl |-> 0]

\* redis GET
RedisGet(store, key) == IF store[key].ttl > 0 THEN store[key].value ELSE Null

\* redis SETEX key ttl value
RedisSetex(store, key, ttl, value) ==
    [store EXCEPT ![key] = [value |-> value, ttl |-> ttl]]

\* redis DEL
RedisDelete(store, key) == [store EXCEPT ![key] = NoEntry]

\* ExactCache.get, given that redis answered: `if cached_value:`.
ExactGet(store, q) ==
    LET cached_value == RedisGet(store, GenerateKey(q))
    IN  IF Truthy(cached_value) THEN cached_value ELSE Null

\* Variant of ExactSet: SET with NX, an existing entry is kept.
ExactSet_KeepsExisting(store, q, response, ttl) ==
    IF RedisGet(store, GenerateKey(q)) # Null THEN store
    ELSE RedisSetex(store, GenerateKey(q), IF ttl = 0 THEN CacheTTL ELSE ttl, response)

\* Variant of ExactSet: the value is replaced, a running expiry is kept.
ExactSet_KeepsTtl(store, q, response, ttl) ==
    RedisSetex(store, GenerateKey(q),
               IF store[GenerateKey(q)].ttl > 0 THEN store[GenerateKey(q)].ttl
               ELSE IF ttl = 0 THEN CacheTTL ELSE ttl,
               response)

\* ExactCache.set, given that redis answered: ttl = ttl or settings.cache_ttl
ExactSet(store, q, response, ttl) ==
    RedisSetex(store, GenerateKey(q), IF ttl = 0 THEN CacheTTL ELSE ttl, response)

\* Variant of ExactDelete: every entry of the layer goes.
ExactDelete_ClearsAll(store, q) ==
    [k \in DOMAIN store |-> IF k[1] = "exact_cache" THEN NoEntry ELSE store[k]]

\* ExactCache.delete
ExactDelete(store, q) == RedisDelete(store, GenerateKey(q))

\* ExactCache.clear_all: delete every key matching exact_cache:*
ExactClearAll(store) ==
    [k \in DOMAIN store |-> IF k[1] = "exact_cache" THEN NoEntry ELSE store[k]]

\* Redis' own expiry after d seconds.
RedisExpire(store, d) ==
    [k \in DOMAIN store |->
        IF store[k].ttl > d THEN [store[k] EXCEPT !.ttl = store[k].ttl - d]
        ELSE NoEntry]

\* ------------------------------------------------------ Layer 1 (Qdrant)
\* The collection is a bag of points: every point has its own uuid, and a
\* point is told from another only by its payload <<query, response>> (its
\* vector is the embedding of the query).  points[k] counts the points
\* stored with payload k.
PointKinds == Queries \X Responses

NoPoints == [k \in PointKinds |-> 0]

RECURSIVE CountIn(_, _)
CountIn(points, K) ==
    IF K = {} THEN 0
    ELSE LET k == CHOOSE x \in K : TRUE
         IN  points[k] + CountIn(points, K \ {k})

\* Number of points in the collection.
PointCount(points) == CountIn(points, PointKinds)

\* Variant of SemanticSearch: a score equal to the threshold is rejected.
SemanticSearch_Strict(points, q) ==
    LET sc(k) == Score(Embed(q), Embed(k[1]))
        above == {k \in PointKinds : points[k] > 0 /\ sc(k) > SemanticThreshold}
    IN  {k \in above : \A j \in above : sc(j) <= sc(k)}

\* client.search(limit=1, score_threshold=...): the points Qdrant may
\* return as the single best match (ties are broken by the engine).  Empty
\* when no point reaches the threshold.
SemanticSearch(points, q) ==
    LET sc(k) == Score(Embed(q), Embed(k[1]))
        above == {k \in PointKinds : points[k] > 0 /\ sc(k) >= SemanticThreshold}
    IN  {k \in above : \A j \in above : sc(j) <= sc(k)}

\* SemanticCache.get, given that the search answered: the values it may
\* return (payload "response" of the best point, or None).
SemanticGet(points, q) ==
    IF SemanticSearch(points, q) = {} THEN {Null}
    ELSE {k[2] : k \in SemanticSearch(points, q)}

\* Variant of SemanticSet: the point id is derived from the query, so the
\* point overwrites the one stored for the same query.
SemanticSet_Overwrites(points, q, response) ==
    [k \in PointKinds |->
        IF k = <<q, response>> THEN 1 ELSE IF k[1] = q THEN 0 ELSE points[k]]

\* Variant of SemanticSet: the point replaces the points stored for the
\* same query and their responses are kept.
SemanticSet_KeepsOld(points, q, response) ==
    IF \E r \in Responses : points[<<q, r>>] > 0 THEN points
    ELSE [points EXCEPT ![<<q, response>>] = @ + 1]

\* SemanticCache.set, given that the upsert succeeded: a new point under a
\* fresh uuid; nothing is overwritten.
SemanticSet(points, q, response) ==
    [points EXCEPT ![<<q, response>>] = @ + 1]

\* ------------------------------------------------------ Layer 2 (Qdrant)
\* RAGCache._token_length: tokens of the documents of the domain.
TokenLength(text) ==
    CASE text = "" -> 0
      [] text = " " -> 1
      [] text = "da" -> 300
      [] text = "dl" -> 900
      [] OTHER -> 450

\* text_splitter.split_text: a text within the chunk size comes back as one
\* chunk, a longer one as several, each within the chunk size; chunks are
\* stripped and empty ones dropped, so a blank text yields no chunk.
SplitText(text) ==
    CASE text \in {"", " "} -> << >>
      [] TokenLength(text) > ChunkSize -> <<"dl#0", "dl#1">>
      [] OTHER -> <<text>>

\* RAGCache._chunk_text: `if not settings.enable_chunking: return [text]`.
ChunkText(enable_chunking, text) ==
    IF ~enable_chunking THEN <<text>> ELSE SplitText(text)

\* The dict display {**fixed, **(metadata or {})}: on a key present in
\* both, the later entry, the caller's, wins.
MergeMetadata(fixed, metadata) ==
    [k \in DOMAIN fixed \cup DOMAIN metadata |->
        IF k \in DOMAIN metadata THEN metadata[k] ELSE fixed[k]]

\* chunk_id: f"{doc_id}_chunk_{i}" if len(chunks) > 1 else doc_id.
ChunkId(doc_id, i, n) == IF n > 1 THEN <<doc_id, "_chunk_", i>> ELSE <<doc_id>>

\* The points built for one document by RAGCache.add_document and by
\* RAGCache.add_documents_batch (the same loop body in both).
DocumentPoints(enable_chunking, doc_id, content, metadata) ==
    LET chunks == ChunkText(enable_chunking, content)
    IN  [i \in 1..Len(chunks) |->
            [id |-> ChunkId(doc_id, i - 1, Len(chunks)),
             content |-> chunks[i],
             metadata |-> MergeMetadata([parent_doc_id |-> doc_id,
                                         chunk_index |-> i - 1,
                                         total_chunks |-> Len(chunks),
                                         is_chunked |-> Len(chunks) > 1],
                                        metadata)]]

\* Variant of RagSearch: the best top_k points come back in any order.
RagSearch_Unordered(points, q, top_k) ==
    LET sc(i) == Score(Embed(q), Embed(points[i].content))
        above == {i \in 1..Len(points) : sc(i) >= RagThreshold}
        n == Min(top_k, Cardinality(above))
    IN  IF n = 0 THEN {<< >>} ELSE
        {s \in [1..n -> above] :
            /\ \A a, b \in 1..n : a < b => s[a] # s[b]
            /\ \A i \in above :
                 (\A a \in 1..n : s[a] # i) => \A a \in 1..n : sc(s[a]) >= sc(i)}

\* client.search(limit=top_k, score_threshold=...): the result lists Qdrant
\* may return, as sequences of point indices in descending score order.
RagSearch(points, q, top_k) ==
    LET sc(i) == Score(Embed(q), Embed(points[i].content))
        above == {i \in 1..Len(points) : sc(i) >= RagThreshold}
        n == Min(top_k, Cardinality(above))
    IN  IF n = 0 THEN {<< >>} ELSE
        {s \in [1..n -> above] :
            /\ \A a, b \in 1..n : a < b => (s[a] # s[b] /\ sc(s[a]) >= sc(s[b]))
            /\ \A i \in above :
                 (\A a \in 1..n : s[a] # i) => \A a \in 1..n : sc(s[a]) >= sc(i)}

\* RAGCache.get, given that the search answered with the index list s: the
\* documents handed to the coordinator.
RagDocuments(points, q, s) ==
    [a \in 1..Len(s) |->
        [content |-> points[s[a]].content,
         metadata |-> points[s[a]].metadata,
         score |-> Score(Embed(q), Embed(points[s[a]].content))]]

\* Variant of BuildContext: the parts are numbered and listed from the last
\* document to the first.
BuildContext_Reversed(documents) ==
    [i \in 1..Len(documents) |->
        [n |-> i, relevance |-> documents[Len(documents) + 1 - i].score,
         content |-> documents[Len(documents) + 1 - i].content]]

\* CacheOrchestrator._build_context_from_documents: one part per document,
\* "Document i (Relevance: score):\ncontent", in the order received.
BuildContext(documents) ==
    [i \in 1..Len(documents) |->
        [n |-> i, relevance |-> documents[i].score, content |-> documents[i].content]]

\* ------------------------------------------------------ generation gateway
\* BaseLLMProvider.get_provider_name of the providers the server registers.
OpenAIName == "OpenAI (gpt-3.5-turbo)"
DummyName == "Custom (Dummy LLM for Cache Testing)"

\* dummy_llm registered at startup: a keyword table, never empty, never raises.
DummyLlm(q) == IF q \in {"qa", "qb"} THEN "r2" ELSE "r1"

\* The texts provider.generate_response may return for a query.
Completions(binding, q) ==
    IF binding = DummyName THEN {DummyLlm(q)} ELSE Responses

\* Whether provider.generate_response may raise (backend error, timeout,
\* unparsable reply); the dummy function cannot.
MayRaise(binding) == binding # DummyName

\* The bindings register_custom_provider can create: the dummy function of
\* the server, and a client's own model behind an API endpoint.
LocalName == "Custom (local)"
CustomBindings == {DummyName, LocalName}

\* What a failed provider lookup tells the caller: the name looked up and
\* the names listed as available.  NoDetail stands for any other message.
NoDetail == [name |-> Null, available |-> {}]

\* list(self.providers.keys()): the names registered in a registry.
Registered(provs) == {n \in DOMAIN provs : provs[n] # Null}

\* Variant of GetProvider: the error lists every name ever configured.
GetProvider_ListsAll(provs, provider_name) ==
    LET name == IF Truthy(provider_name) THEN provider_name ELSE DefaultLLM
    IN  IF name \in Registered(provs)
        THEN [found |-> TRUE, provider |-> provs[name],
              detail |-> NoDetail]
        ELSE [found |-> FALSE, provider |-> Null,
              detail |-> [name |-> name, available |-> DOMAIN provs]]

\* LLMManager.get_provider: provider_name or settings.default_llm; a name
\* that is not registered raises ValueError("Provider '<name>' not
\* available. Available providers: <the registered names>").
GetProvider(provs, provider_name) ==
    LET name == IF Truthy(provider_name) THEN provider_name ELSE DefaultLLM
    IN  IF name \in Registered(provs)
        THEN [found |-> TRUE, provider |-> provs[name],
              detail |-> NoDetail]
        ELSE [found |-> FALSE, provider |-> Null,
              detail |-> [name |-> name, available |-> Registered(provs)]]

\* Variant of RegisterProvider: a name that is already registered keeps
\* its binding.
RegisterProvider_KeepsFirst(provs, name, binding) ==
    IF provs[name] # Null THEN provs ELSE [provs EXCEPT ![name] = binding]

\* self.providers[provider_name] = custom_provider
RegisterProvider(provs, name, binding) == [provs EXCEPT ![name] = binding]

\* if provider_name in self.providers: del self.providers[provider_name]
UnregisterProvider(provs, name) ==
    IF name \in Registered(provs) THEN [provs EXCEPT ![name] = Null] ELSE provs

\* The bindings a caller of register_custom_provider may pass: a chat-model
\* object, the URL of an HTTP endpoint, a function; None for each one left
\* out.
LlmInstances == {Null, "ChatOllama(model=llama2)"}
ApiEndpoints == {Null, "https://api.example.com/generate"}
CustomFunctions == {Null, "my_llm"}

\* The provider object a successful constructor yields, told apart by the
\* binding it calls when asked to generate.
CustomProvider(llm_type, binding) == "CustomLLMProvider " \o llm_type \o " " \o binding

\* Variant of CustomLLMProvider: the function is preferred to the object
\* and to the endpoint.
CustomLLMProvider_FunctionFirst(llm_instance, api_endpoint, custom_function) ==
    IF custom_function # Null
    THEN [raised |-> FALSE, llm_type |-> "function",
          provider |-> CustomProvider("function", custom_function)]
    ELSE IF llm_instance # Null
    THEN [raised |-> FALSE, llm_type |-> "langchain",
          provider |-> CustomProvider("langchain", llm_instance)]
    ELSE IF api_endpoint # Null
    THEN [raised |-> FALSE, llm_type |-> "api",
          provider |-> CustomProvider("api", api_endpoint)]
    ELSE [raised |-> TRUE, llm_type |-> Null, provider |-> Null]

\* CustomLLMProvider.__init__: `if llm_instance is not None ... elif
\* api_endpoint is not None ... elif custom_function is not None ... else:
\* raise ValueError`.
CustomLLMProvider(llm_instance, api_endpoint, custom_function) ==
    IF llm_instance # Null
    THEN [raised |-> FALSE, llm_type |-> "langchain",
          provider |-> CustomProvider("langchain", llm_instance)]
    ELSE IF api_endpoint # Null
    THEN [raised |-> FALSE, llm_type |-> "api",
          provider |-> CustomProvider("api", api_endpoint)]
    ELSE IF custom_function # Null
    THEN [raised |-> FALSE, llm_type |-> "function",
          provider |-> CustomProvider("function", custom_function)]
    ELSE [raised |-> TRUE, llm_type |-> Null, provider |-> Null]

\* The providers LLMManager constructs by itself, and what each reports as
\* its name.
ManagedNames == {"openai", "gemini"}
GeminiName == "Google Gemini (gemini-pro)"
ManagedBinding(name) == IF name = "openai" THEN OpenAIName ELSE GeminiName

\* Variant of AfterConstruction: a constructor that raises empties the
\* registry.
AfterConstruction_FailureClears(provs, name, out) ==
    IF out = "ok" THEN RegisterProvider(provs, name, ManagedBinding(name))
    ELSE IF out = "fail" THEN [n \in DOMAIN provs |-> Null]
    ELSE provs

\* One block of LLMManager._initialize_providers: without an API key the
\* provider is skipped; `self.providers[name] = Provider()` registers it
\* when the constructor returns; when it raises, the except clause prints
\* and goes on.
AfterConstruction(provs, name, out) ==
    IF out = "ok" THEN RegisterProvider(provs, name, ManagedBinding(name))
    ELSE provs

\* ------------------------------------------------------------------ state
VARIABLES
    l0,         \* Redis: key -> [value, ttl]
    l1,         \* Qdrant collection semantic_cache: bag of points
    l2,         \* Qdrant collection rag_cache: sequence of chunk points
    providers,  \* LLMManager.providers: name -> provider name, Null if absent
    pc,         \* per worker: the statement of query() it is about to run
    query,      \* per worker: the query argument
    llm_provider, \* per worker: the llm_provider argument
    response,   \* per worker: the local `response`
    documents,  \* per worker: the local `documents`
    trace,      \* per worker: the collaborator calls issued so far
    result,     \* per worker: what process_query hands to the caller
    pre,        \* per worker: what was known when the request started
    hist,       \* per query: outcome of the last answered request
    collections, \* Qdrant: collection name -> its vector parameters,
                \* Absent if there is no such collection
    vector_size \* per worker: vector_size of its cache instances, Unset
                \* before they are constructed

storeVars == <<l0, l1, l2>>
procVars == <<pc, query, llm_provider, response, documents, trace, result, pre>>
vars == <<l0, l1, l2, providers, pc, query, llm_provider, response, documents,
          trace, result, pre, hist, collections, vector_size>>

\* The collections and the cache instances are as they were.
SameCollections == UNCHANGED <<collections, vector_size>>

\* settings.embedding_model is all-MiniLM-L6-v2, whose sentence embeddings
\* have 384 components; all-mpnet-base-v2 has 768.
EmbeddingSize == 384
OtherSize == 768
ModelSizes == {EmbeddingSize, OtherSize}
SemanticCollection == "semantic_cache"
RagCollection == "rag_cache"
CollectionNames == {SemanticCollection, RagCollection}

\* Qdrant accepts a search or an upsert of worker p's instance on a
\* collection that exists and whose vector size is that of p's vectors.
Absent == << >>
Unset == << >>
VectorParams(size) == <<size>>

Usable(p, name) ==
    /\ collections[name] # Absent
    /\ collections[name] = VectorParams(vector_size[p][1])

\* cache_layer strings of the result dictionaries.
Layer0Name == "Layer 0 (Exact Cache)"
Layer1Name == "Layer 1 (Semantic Cache)"
Layer2Name == "Layer 2 (RAG Cache)"

\* "elapsed_time": time.time() - start_time, present in every result
\* dictionary query() returns.
Elapsed == "time.time() - start_time"

NoResult ==
    [status |-> "none", response |-> Null, cache_layer |-> Null,
     cache_hit |-> FALSE, llm_called |-> FALSE, rag_documents |-> 0,
     llm_provider |-> Null, elapsed_time |-> Null, detail |-> NoDetail]

\* HTTPException(500) raised by process_query when query() raises.
ErrorResult == [NoResult EXCEPT !.status = "error"]

\* What the last answered request for a query established, when all its
\* calls succeeded and as long as the query's Exact-Layer entry has not
\* been cleared, deleted or expired since:
\* "semantic" - it ended as a Semantic-Layer hit with this response;
\* "first"    - it started on empty caches and ended as a full miss with
\*              this response;
\* "-"        - anything else.
NoHist == [kind |-> "-", response |-> Null]

HistOf(res, empty) ==
    IF res.cache_layer = "Layer 1 (Semantic Cache)"
    THEN [kind |-> "semantic", response |-> res.response]
    ELSE IF res.cache_layer = Null /\ empty
    THEN [kind |-> "first", response |-> res.response]
    ELSE NoHist

\* One collaborator call: which call, how it ended, the value passed or
\* returned, and (for the LLM) whether a context was supplied.
Event(call, out, val, ctx) == [call |-> call, out |-> out, val |-> val, ctx |-> ctx]

CachesEmpty ==
    /\ \A k \in Keys : l0[k] = NoEntry
    /\ l1 = NoPoints
    /\ l2 = << >>

\* The workers busy with a request (until its response is delivered).
InFlight == {p \in Procs : pc[p] # "idle"}

Init ==
    /\ l0 = [k \in Keys |-> NoEntry]
    /\ l1 = NoPoints
    /\ l2 = << >>
    /\ providers = [n \in ProviderNames |->
                       IF n = "dummy" THEN DummyName ELSE OpenAIName]
    /\ pc = [p \in Procs |-> "idle"]
    /\ query = [p \in Procs |-> Null]
    /\ llm_provider = [p \in Procs |-> Null]
    /\ response = [p \in Procs |-> Null]
    /\ documents = [p \in Procs |-> << >>]
    /\ trace = [p \in Procs |-> << >>]
    /\ result = [p \in Procs |-> NoResult]
    /\ pre = [p \in Procs |-> [hist |-> NoHist, empty |-> FALSE]]
    /\ hist = [q \in Queries |-> NoHist]
    /\ collections = [c \in CollectionNames |-> VectorParams(EmbeddingSize)]
    /\ vector_size = [p \in Procs |-> <<EmbeddingSize>>]

\* ---------------------------------------------------------------- helpers
\* A request whose collaborator calls all succeeded.  The claims about a
\* path of the hierarchy (hit, promotion, population) are claims about such
\* requests; what a failing call does is the subject of C7 to C11.
Nominal(tr) == \A i \in 1..Len(tr) : tr[i].out \notin {"raise", "fail"}

\* The request of worker p ends: query() returned res, or raised.
Answer(p, res, ev) ==
    /\ pc' = [pc EXCEPT ![p] = "done"]
    /\ trace' = [trace EXCEPT ![p] = Append(@, ev)]
    /\ result' = [result EXCEPT ![p] = res]
    /\ hist' = IF res.status # "ok" THEN hist
               ELSE IF Nominal(Append(trace[p], ev))
               THEN [hist EXCEPT ![query[p]] = HistOf(res, pre[p].empty)]
               ELSE [hist EXCEPT ![query[p]] = NoHist]

\* query() raised at this call; process_query turns it into HTTP 500 whose
\* detail carries the exception's message.
RaiseWith(p, detail, ev) ==
    /\ Answer(p, [ErrorResult EXCEPT !.detail = detail], ev)
    /\ UNCHANGED <<l0, l1, l2, providers, query, llm_provider, response,
                   documents, pre>>

Raise(p, ev) == RaiseWith(p, NoDetail, ev)

\* query() moves on to statement next.
Goto(p, next, ev) ==
    /\ pc' = [pc EXCEPT ![p] = next]
    /\ trace' = [trace EXCEPT ![p] = Append(@, ev)]
    /\ UNCHANGED <<result, hist>>

\* The Exact-Layer entries of the queries in Q are gone: what earlier
\* requests established about them no longer holds.
ForgetHist(Q) == [q \in Queries |-> IF q \in Q THEN NoHist ELSE hist[q]]
ForgetPre(Q) ==
    [p \in Procs |-> IF query[p] \in Q THEN [pre[p] EXCEPT !.hist = NoHist]
                     ELSE pre[p]]

\* -------------------------------------------------- CacheOrchestrator.query
\* POST /api/query: process_query calls orchestrator.query(query, llm_provider).
Begin(p, q, prov) ==
    /\ SameCollections
    /\ pc[p] = "idle"
    /\ pc' = [pc EXCEPT ![p] = "l0get"]
    /\ query' = [query EXCEPT ![p] = q]
    /\ llm_provider' = [llm_provider EXCEPT ![p] = prov]
    /\ pre' = [pre EXCEPT ![p] = [hist |-> hist[q], empty |-> CachesEmpty]]
    /\ UNCHANGED <<l0, l1, l2, providers, response, documents, trace, result, hist>>

\* One server: the handler runs query() to its end before the event loop
\* takes the next request.
Start(p, q, prov) ==
    /\ InFlight = {}
    /\ PointCount(l1) < MaxPoints
    /\ Begin(p, q, prov)

\* Several server instances in front of the same Redis and Qdrant: an
\* instance takes a request while another one is working on the same query.
Submit(p, q, prov) ==
    /\ \A o \in InFlight : query[o] = q
    /\ PointCount(l1) + Cardinality(InFlight) < MaxPoints
    /\ Begin(p, q, prov)

\* Variant of L0Get: an Exact-Layer hit does not end the request.
L0Get_NoShortCircuit(p) ==
    /\ SameCollections
    /\ pc[p] = "l0get"
    /\ \/ Raise(p, Event("l0.get", "raise", Null, FALSE))
       \/ LET v == ExactGet(l0, query[p]) IN
          /\ Goto(p, "l1get",
                  Event("l0.get", IF Truthy(v) THEN "hit" ELSE "miss", v, FALSE))
          /\ response' = [response EXCEPT ![p] = v]
          /\ UNCHANGED <<l0, l1, l2, providers, query, llm_provider,
                         documents, pre>>

\* Variant of L0Get: an Exact-Layer hit is also written to the Semantic Layer.
L0Get_WritesOnHit(p) ==
    /\ SameCollections
    /\ pc[p] = "l0get"
    /\ \/ Raise(p, Event("l0.get", "raise", Null, FALSE))
       \/ LET v == ExactGet(l0, query[p]) IN
          IF Truthy(v)
          THEN /\ Answer(p, [NoResult EXCEPT !.status = "ok", !.elapsed_time = Elapsed, !.response = v,
                                !.cache_layer = Layer0Name, !.cache_hit = TRUE],
                         Event("l0.get", "hit", v, FALSE))
               /\ l1' = SemanticSet(l1, query[p], v)
               /\ UNCHANGED <<l0, l2, providers, query, llm_provider,
                              response, documents, pre>>
          ELSE /\ Goto(p, "l1get", Event("l0.get", "miss", v, FALSE))
               /\ response' = [response EXCEPT ![p] = v]
               /\ UNCHANGED <<l0, l1, l2, providers, query, llm_provider,
                              documents, pre>>

\* Variant of L0Get: the lookup waits until no other query is running.
L0Get_WaitsForOthers(p) ==
    /\ SameCollections
    /\ pc[p] = "l0get"
    /\ \A o \in Procs \ {p} : pc[o] \in {"idle", "done"}
    /\ \/ Raise(p, Event("l0.get", "raise", Null, FALSE))
       \/ LET v == ExactGet(l0, query[p]) IN
          IF Truthy(v)
          THEN /\ Answer(p, [NoResult EXCEPT !.status = "ok", !.elapsed_time = Elapsed, !.response = v,
                                !.cache_layer = Layer0Name, !.cache_hit = TRUE],
                         Event("l0.get", "hit", v, FALSE))
               /\ UNCHANGED <<l0, l1, l2, providers, query, llm_provider,
                              response, documents, pre>>
          ELSE /\ Goto(p, "l1get", Event("l0.get", "miss", v, FALSE))
               /\ response' = [response EXCEPT ![p] = v]
               /\ UNCHANGED <<l0, l1, l2, providers, query, llm_provider,
                              documents, pre>>

\* Variant of L0Get: the provider name is resolved before the first lookup.
L0Get_ResolvesFirst(p) ==
    /\ SameCollections
    /\ pc[p] = "l0get"
    /\ IF ~GetProvider(providers, llm_provider[p]).found
       THEN RaiseWith(p, GetProvider(providers, llm_provider[p]).detail,
                      Event("llm.get_provider", "raise", Null, FALSE))
       ELSE
       \/ Raise(p, Event("l0.get", "raise", Null, FALSE))
       \/ LET v == ExactGet(l0, query[p]) IN
          IF Truthy(v)
          THEN /\ Answer(p, [NoResult EXCEPT !.status = "ok", !.elapsed_time = Elapsed, !.response = v,
                                !.cache_layer = Layer0Name, !.cache_hit = TRUE],
                         Event("l0.get", "hit", v, FALSE))
               /\ UNCHANGED <<l0, l1, l2, providers, query, llm_provider,
                              response, documents, pre>>
          ELSE /\ Goto(p, "l1get", Event("l0.get", "miss", v, FALSE))
               /\ response' = [response EXCEPT ![p] = v]
               /\ UNCHANGED <<l0, l1, l2, providers, query, llm_provider,
                              documents, pre>>

\* response = self.layer0.get(query); if response: return {... Layer 0 ...}
\* ExactCache.get has no exception handler: a Redis error leaves query().
L0Get(p) ==
    /\ SameCollections
    /\ pc[p] = "l0get"
    /\ \/ Raise(p, Event("l0.get", "raise", Null, FALSE))
       \/ LET v == ExactGet(l0, query[p]) IN
          IF Truthy(v)
          THEN /\ Answer(p, [NoResult EXCEPT !.status = "ok", !.elapsed_time = Elapsed, !.response = v,
                                !.cache_layer = Layer0Name, !.cache_hit = TRUE],
                         Event("l0.get", "hit", v, FALSE))
               /\ UNCHANGED <<l0, l1, l2, providers, query, llm_provider,
                              response, documents, pre>>
          ELSE /\ Goto(p, "l1get", Event("l0.get", "miss", v, FALSE))
               /\ response' = [response EXCEPT ![p] = v]
               /\ UNCHANGED <<l0, l1, l2, providers, query, llm_provider,
                              documents, pre>>

\* Variant of L1Get: a search that failed is issued again.
L1Get_RetriesOnFail(p) ==
    /\ SameCollections
    /\ pc[p] = "l1get"
    /\ \/ Raise(p, Event("l1.get", "raise", Null, FALSE))
       \/ /\ Goto(p, "l1get", Event("l1.get", "fail", Null, FALSE))
          /\ response' = [response EXCEPT ![p] = Null]
          /\ UNCHANGED <<l0, l1, l2, providers, query, llm_provider, documents, pre>>
       \/ \E v \in SemanticGet(l1, query[p]) :
            /\ Usable(p, SemanticCollection)
            /\ Goto(p, IF Truthy(v) THEN "l0set_sem" ELSE "l2get",
                    Event("l1.get", IF Truthy(v) THEN "hit" ELSE "miss", v, FALSE))
            /\ response' = [response EXCEPT ![p] = v]
            /\ UNCHANGED <<l0, l1, l2, providers, query, llm_provider, documents, pre>>

\* Variant of L1Get: the search runs outside the try block.
L1Get_SearchRaises(p) ==
    /\ SameCollections
    /\ pc[p] = "l1get"
    /\ \/ Raise(p, Event("l1.get", "raise", Null, FALSE))
       \/ Raise(p, Event("l1.get", "fail", Null, FALSE))
       \/ \E v \in SemanticGet(l1, query[p]) :
            /\ Usable(p, SemanticCollection)
            /\ Goto(p, IF Truthy(v) THEN "l0set_sem" ELSE "l2get",
                    Event("l1.get", IF Truthy(v) THEN "hit" ELSE "miss", v, FALSE))
            /\ response' = [response EXCEPT ![p] = v]
            /\ UNCHANGED <<l0, l1, l2, providers, query, llm_provider, documents, pre>>

\* Variant of L1Get: whatever the search returned is a hit, an empty
\* response too.
L1Get_ServesEmpty(p) ==
    /\ SameCollections
    /\ pc[p] = "l1get"
    /\ \/ Raise(p, Event("l1.get", "raise", Null, FALSE))
       \/ /\ Goto(p, "l2get", Event("l1.get", "fail", Null, FALSE))
          /\ response' = [response EXCEPT ![p] = Null]
          /\ UNCHANGED <<l0, l1, l2, providers, query, llm_provider, documents, pre>>
       \/ \E v \in SemanticGet(l1, query[p]) :
            /\ Usable(p, SemanticCollection)
            /\ Goto(p, IF v # Null THEN "l0set_sem" ELSE "l2get",
                    Event("l1.get", IF v # Null THEN "hit" ELSE "miss", v, FALSE))
            /\ response' = [response EXCEPT ![p] = v]
            /\ UNCHANGED <<l0, l1, l2, providers, query, llm_provider, documents, pre>>

\* response = self.layer1.get(query); if response: ...
\* SemanticCache.get embeds outside its try block and searches inside it; a
\* search Qdrant rejects (no such collection, wrong vector size) is one of
\* the errors the try block swallows.
L1Get(p) ==
    /\ SameCollections
    /\ pc[p] = "l1get"
    /\ \/ Raise(p, Event("l1.get", "raise", Null, FALSE))
       \/ /\ Goto(p, "l2get", Event("l1.get", "fail", Null, FALSE))
          /\ response' = [response EXCEPT ![p] = Null]
          /\ UNCHANGED <<l0, l1, l2, providers, query, llm_provider, documents, pre>>
       \/ \E v \in SemanticGet(l1, query[p]) :
            /\ Usable(p, SemanticCollection)
            /\ Goto(p, IF Truthy(v) THEN "l0set_sem" ELSE "l2get",
                    Event("l1.get", IF Truthy(v) THEN "hit" ELSE "miss", v, FALSE))
            /\ response' = [response EXCEPT ![p] = v]
            /\ UNCHANGED <<l0, l1, l2, providers, query, llm_provider, documents, pre>>

\* Variant of L0SetSem: a Semantic-Layer hit is answered without promotion.
L0SetSem_NoWriteBack(p) ==
    /\ SameCollections
    /\ pc[p] = "l0set_sem"
    /\ Answer(p, [NoResult EXCEPT !.status = "ok", !.elapsed_time = Elapsed, !.response = response[p],
                     !.cache_layer = Layer1Name, !.cache_hit = TRUE],
              Event("l0.set", "ok", response[p], FALSE))
    /\ UNCHANGED <<l0, l1, l2, providers, query, llm_provider, response,
                   documents, pre>>

\* Variant of L0SetSem: the hit is also stored as a new Semantic-Layer point.
L0SetSem_AlsoSemantic(p) ==
    /\ SameCollections
    /\ pc[p] = "l0set_sem"
    /\ \/ Raise(p, Event("l0.set", "raise", response[p], FALSE))
       \/ /\ l0' = ExactSet(l0, query[p], response[p], 0)
          /\ l1' = SemanticSet(l1, query[p], response[p])
          /\ Answer(p, [NoResult EXCEPT !.status = "ok", !.elapsed_time = Elapsed, !.response = response[p],
                           !.cache_layer = Layer1Name, !.cache_hit = TRUE],
                    Event("l0.set", "ok", response[p], FALSE))
          /\ UNCHANGED <<l2, providers, query, llm_provider, response,
                         documents, pre>>

\* self.layer0.set(query, response); return {... Layer 1 ...}
\* ExactCache.set has no exception handler either.
L0SetSem(p) ==
    /\ SameCollections
    /\ pc[p] = "l0set_sem"
    /\ \/ Raise(p, Event("l0.set", "raise", response[p], FALSE))
       \/ /\ l0' = ExactSet(l0, query[p], response[p], 0)
          /\ Answer(p, [NoResult EXCEPT !.status = "ok", !.elapsed_time = Elapsed, !.response = response[p],
                           !.cache_layer = Layer1Name, !.cache_hit = TRUE],
                    Event("l0.set", "ok", response[p], FALSE))
          /\ UNCHANGED <<l1, l2, providers, query, llm_provider, response,
                         documents, pre>>

\* Variant of L2Get: the documents retrieved are taken out of the layer.
L2Get_ConsumesDocuments(p) ==
    /\ SameCollections
    /\ pc[p] = "l2get"
    /\ \/ Raise(p, Event("l2.get", "raise", Null, FALSE))
       \/ /\ Goto(p, "gen", Event("l2.get", "fail", Null, FALSE))
          /\ documents' = [documents EXCEPT ![p] = << >>]
          /\ UNCHANGED <<l0, l1, l2, providers, query, llm_provider, response, pre>>
       \/ /\ Usable(p, RagCollection)
          /\ \E s \in RagSearch(l2, query[p], TopK) :
            LET docs == IF s = << >> THEN << >> ELSE RagDocuments(l2, query[p], s) IN
            /\ Goto(p, IF docs # << >> THEN "gen_rag" ELSE "gen",
                    Event("l2.get", IF docs # << >> THEN "hit" ELSE "miss", Null, FALSE))
            /\ documents' = [documents EXCEPT ![p] = docs]
            /\ l2' = IF docs # << >> THEN << >> ELSE l2
            /\ UNCHANGED <<l0, l1, providers, query, llm_provider, response, pre>>

\* documents = self.layer2.get(query); if documents: ...
\* RAGCache.get embeds outside its try block and searches inside it; a
\* search Qdrant rejects (no such collection, wrong vector size) is one of
\* the errors the try block swallows.
L2Get(p) ==
    /\ SameCollections
    /\ pc[p] = "l2get"
    /\ \/ Raise(p, Event("l2.get", "raise", Null, FALSE))
       \/ /\ Goto(p, "gen", Event("l2.get", "fail", Null, FALSE))
          /\ documents' = [documents EXCEPT ![p] = << >>]
          /\ UNCHANGED <<l0, l1, l2, providers, query, llm_provider, response, pre>>
       \/ /\ Usable(p, RagCollection)
          /\ \E s \in RagSearch(l2, query[p], TopK) :
            LET docs == IF s = << >> THEN << >> ELSE RagDocuments(l2, query[p], s) IN
            /\ Goto(p, IF docs # << >> THEN "gen_rag" ELSE "gen",
                    Event("l2.get", IF docs # << >> THEN "hit" ELSE "miss", Null, FALSE))
            /\ documents' = [documents EXCEPT ![p] = docs]
            /\ UNCHANGED <<l0, l1, l2, providers, query, llm_provider, response, pre>>

\* Variant of Generate: a backend failure is swallowed and an empty text
\* is carried on.
Generate_Swallows(p, has_context, next) ==
    LET lookup == GetProvider(providers, llm_provider[p])
        binding == lookup.provider
    IN
    \/ /\ ~lookup.found
       /\ RaiseWith(p, lookup.detail,
                    Event("llm.get_provider", "raise", Null, has_context))
    \/ /\ binding # Null
       /\ MayRaise(binding)
       /\ Goto(p, next, Event("llm", "raise", Null, has_context))
       /\ response' = [response EXCEPT ![p] = ""]
       /\ UNCHANGED <<l0, l1, l2, providers, query, llm_provider, documents, pre>>
    \/ /\ binding # Null
       /\ \E r \in Completions(binding, query[p]) :
            /\ Goto(p, next, Event("llm", "ok", r, has_context))
            /\ response' = [response EXCEPT ![p] = r]
            /\ UNCHANGED <<l0, l1, l2, providers, query, llm_provider, documents, pre>>

\* Variant of Generate: a backend failure leaves an empty response in the
\* Exact Layer before it is raised.
Generate_CachesFailure(p, has_context, next) ==
    LET lookup == GetProvider(providers, llm_provider[p])
        binding == lookup.provider
    IN
    \/ /\ ~lookup.found
       /\ RaiseWith(p, lookup.detail,
                    Event("llm.get_provider", "raise", Null, has_context))
    \/ /\ binding # Null
       /\ MayRaise(binding)
       /\ Answer(p, [ErrorResult EXCEPT !.detail = NoDetail],
                 Event("llm", "raise", Null, has_context))
       /\ l0' = ExactSet(l0, query[p], "", 0)
       /\ UNCHANGED <<l1, l2, providers, query, llm_provider, response,
                      documents, pre>>
    \/ /\ binding # Null
       /\ \E r \in Completions(binding, query[p]) :
            /\ Goto(p, next, Event("llm", "ok", r, has_context))
            /\ response' = [response EXCEPT ![p] = r]
            /\ UNCHANGED <<l0, l1, l2, providers, query, llm_provider, documents, pre>>

\* LLMManager.generate_response(query, context, provider_name):
\* get_provider raises ValueError for a name that is not registered, the
\* provider's generate_response raises on a backend failure, and otherwise
\* the text and the provider's name come back.  has_context tells whether
\* the coordinator passed a context.
Generate(p, has_context, next) ==
    LET lookup == GetProvider(providers, llm_provider[p])
        binding == lookup.provider
    IN
    \/ /\ ~lookup.found
       /\ RaiseWith(p, lookup.detail,
                    Event("llm.get_provider", "raise", Null, has_context))
    \/ /\ binding # Null
       /\ MayRaise(binding)
       /\ Raise(p, Event("llm", "raise", Null, has_context))
    \/ /\ binding # Null
       /\ \E r \in Completions(binding, query[p]) :
            /\ Goto(p, next, Event("llm", "ok", r, has_context))
            /\ response' = [response EXCEPT ![p] = r]
            /\ UNCHANGED <<l0, l1, l2, providers, query, llm_provider, documents, pre>>

\* Variant of GenRag: the retrieved documents are not passed on.
GenRag_NoContext(p) ==
    /\ SameCollections
    /\ pc[p] = "gen_rag"
    /\ Generate(p, FALSE, "l1set_rag")

\* context = self._build_context_from_documents(documents)
\* llm_result = self.llm_manager.generate_response(query, context, llm_provider)
GenRag(p) ==
    /\ SameCollections
    /\ pc[p] = "gen_rag"
    /\ Generate(p, BuildContext(documents[p]) # << >>, "l1set_rag")

\* llm_result = self.llm_manager.generate_response(query, None, llm_provider)
GenMiss(p) ==
    /\ SameCollections
    /\ pc[p] = "gen"
    /\ Generate(p, FALSE, "l0set_miss")

\* Variant of Layer1Set: the upsert runs outside the try block, a rejected
\* upsert leaves query().
Layer1Set_UpsertRaises(p, next, res) ==
    \/ Raise(p, Event("l1.set", "raise", response[p], FALSE))
    \/ Raise(p, Event("l1.set", "fail", response[p], FALSE))
    \/ /\ Usable(p, SemanticCollection)
       /\ l1' = SemanticSet(l1, query[p], response[p])
       /\ IF next = "done"
          THEN Answer(p, res, Event("l1.set", "ok", response[p], FALSE))
          ELSE Goto(p, next, Event("l1.set", "ok", response[p], FALSE))
       /\ UNCHANGED <<l0, l2, providers, query, llm_provider, response,
                      documents, pre>>

\* SemanticCache.set as called by the coordinator: the embedding is computed
\* outside the try block (an error leaves query()), the upsert inside it
\* (an error is printed and swallowed).
Layer1Set(p, next, res) ==
    \/ Raise(p, Event("l1.set", "raise", response[p], FALSE))
    \/ /\ IF next = "done"
          THEN Answer(p, res, Event("l1.set", "fail", response[p], FALSE))
          ELSE Goto(p, next, Event("l1.set", "fail", response[p], FALSE))
       /\ UNCHANGED <<l0, l1, l2, providers, query, llm_provider, response,
                      documents, pre>>
    \/ /\ Usable(p, SemanticCollection)
       /\ l1' = SemanticSet(l1, query[p], response[p])
       /\ IF next = "done"
          THEN Answer(p, res, Event("l1.set", "ok", response[p], FALSE))
          ELSE Goto(p, next, Event("l1.set", "ok", response[p], FALSE))
       /\ UNCHANGED <<l0, l2, providers, query, llm_provider, response,
                      documents, pre>>

\* Variant of Layer0Set: the entry is written only when the key is absent.
Layer0Set_FirstWins(p, next, res) ==
    \/ Raise(p, Event("l0.set", "raise", response[p], FALSE))
    \/ /\ l0' = ExactSet_KeepsExisting(l0, query[p], response[p], 0)
       /\ IF next = "done"
          THEN Answer(p, res, Event("l0.set", "ok", response[p], FALSE))
          ELSE Goto(p, next, Event("l0.set", "ok", response[p], FALSE))
       /\ UNCHANGED <<l1, l2, providers, query, llm_provider, response,
                      documents, pre>>

\* ExactCache.set as called by the coordinator after generation.
Layer0Set(p, next, res) ==
    \/ Raise(p, Event("l0.set", "raise", response[p], FALSE))
    \/ /\ l0' = ExactSet(l0, query[p], response[p], 0)
       /\ IF next = "done"
          THEN Answer(p, res, Event("l0.set", "ok", response[p], FALSE))
          ELSE Goto(p, next, Event("l0.set", "ok", response[p], FALSE))
       /\ UNCHANGED <<l1, l2, providers, query, llm_provider, response,
                      documents, pre>>

\* The provider name reported in the result: llm_result["provider"].
UsedProvider(p) == GetProvider(providers, llm_provider[p]).provider

\* Variant of RagResult: the number of retrieved documents is left out.
RagResult_NoCount(p) ==
    [NoResult EXCEPT !.status = "ok", !.elapsed_time = Elapsed, !.response = response[p],
        !.cache_layer = Layer2Name, !.cache_hit = TRUE, !.llm_called = TRUE,
        !.llm_provider = UsedProvider(p)]

\* return {... "cache_layer": "Layer 2 (RAG Cache)", "cache_hit": True, ...}
RagResult(p) ==
    [NoResult EXCEPT !.status = "ok", !.elapsed_time = Elapsed, !.response = response[p],
        !.cache_layer = Layer2Name, !.cache_hit = TRUE, !.llm_called = TRUE,
        !.rag_documents = Len(documents[p]), !.llm_provider = UsedProvider(p)]

\* Variant of MissResult: the full miss is reported as a cache hit.
MissResult_CacheHit(p) ==
    [NoResult EXCEPT !.status = "ok", !.elapsed_time = Elapsed, !.response = response[p],
        !.cache_hit = TRUE, !.llm_called = TRUE, !.llm_provider = UsedProvider(p)]

\* return {... "cache_layer": None, "cache_hit": False, "llm_called": True ...}
MissResult(p) ==
    [NoResult EXCEPT !.status = "ok", !.elapsed_time = Elapsed, !.response = response[p],
        !.llm_called = TRUE, !.llm_provider = UsedProvider(p)]

\* Retrieval path: self.layer1.set(query, response)
L1SetRag(p) ==
    /\ SameCollections
    /\ pc[p] = "l1set_rag"
    /\ Layer1Set(p, "l0set_rag", NoResult)

\* Retrieval path: self.layer0.set(query, response); return {...}
L0SetRag(p) ==
    /\ SameCollections
    /\ pc[p] = "l0set_rag"
    /\ Layer0Set(p, "done", RagResult(p))

\* Full miss: self.layer0.set(query, response)
L0SetMiss(p) ==
    /\ SameCollections
    /\ pc[p] = "l0set_miss"
    /\ Layer0Set(p, "l1set_miss", NoResult)

\* Full miss: self.layer1.set(query, response); return {...}
L1SetMiss(p) ==
    /\ SameCollections
    /\ pc[p] = "l1set_miss"
    /\ Layer1Set(p, "done", MissResult(p))

\* The HTTP response has been delivered; the worker is free again.
Return(p) ==
    /\ SameCollections
    /\ pc[p] = "done"
    /\ pc' = [pc EXCEPT ![p] = "idle"]
    /\ query' = [query EXCEPT ![p] = Null]
    /\ llm_provider' = [llm_provider EXCEPT ![p] = Null]
    /\ response' = [response EXCEPT ![p] = Null]
    /\ documents' = [documents EXCEPT ![p] = << >>]
    /\ trace' = [trace EXCEPT ![p] = << >>]
    /\ result' = [result EXCEPT ![p] = NoResult]
    /\ pre' = [pre EXCEPT ![p] = [hist |-> NoHist, empty |-> FALSE]]
    /\ UNCHANGED <<l0, l1, l2, providers, hist>>

\* ------------------------------------------------------- other operations
\* The queries whose Exact-Layer entry differs between two Redis states.
Touched(old, new) == {q \in Queries : old[GenerateKey(q)] # new[GenerateKey(q)]}

\* uuid.uuid4(): an id no stored chunk carries.
FreshDocId == CHOOSE n \in 1..(MaxChunks + 1) :
                 \A i \in 1..Len(l2) : l2[i].id[1] # n

\* POST /api/documents: RAGCache.add_document(content).  The upsert is
\* inside a try block: on an error nothing is stored and None comes back.
AddDocument(content) ==
    /\ SameCollections
    /\ InFlight = {}
    /\ Len(l2) + Len(ChunkText(EnableChunking, content)) <= MaxChunks
    /\ \/ l2' = l2 \o DocumentPoints(EnableChunking, FreshDocId, content, NoMetadata)
       \/ l2' = l2
    /\ UNCHANGED <<l0, l1, providers, pc, query, llm_provider, response,
                   documents, trace, result, pre, hist>>

\* DELETE /api/cache: CacheOrchestrator.clear_cache(layer).
\* ExactCache.clear_all deletes key by key with no exception handler: a
\* Redis error leaves clear_cache with some keys deleted and the later
\* layers untouched.  The vector layers drop and recreate their collection
\* inside a try block.
ClearCache(layer) ==
    /\ SameCollections
    /\ InFlight = {}
    /\ \/ /\ layer \in {"0", Null}
          /\ \E K \in SUBSET Keys :
               /\ K # Keys
               /\ l0' = [k \in Keys |-> IF k \in K THEN NoEntry ELSE l0[k]]
          /\ UNCHANGED <<l1, l2>>
       \/ /\ l0' = IF layer \in {"0", Null} THEN ExactClearAll(l0) ELSE l0
          /\ \/ l1' = IF layer \in {"1", Null} THEN NoPoints ELSE l1
             \/ l1' = l1
          /\ \/ l2' = IF layer \in {"2", Null} THEN << >> ELSE l2
             \/ l2' = l2
    /\ hist' = ForgetHist(Touched(l0, l0'))
    /\ pre' = ForgetPre(Touched(l0, l0'))
    /\ UNCHANGED <<providers, pc, query, llm_provider, response, documents,
                   trace, result>>

\* Variant of ClearedStores: clearing all layers spares the documents.
ClearedStores_SparesDocuments(layer, s0, s1, s2) ==
    <<IF layer \in {"0", Null} THEN ExactClearAll(s0) ELSE s0,
      IF layer \in {"1", Null} THEN NoPoints ELSE s1,
      IF layer = "2" THEN << >> ELSE s2>>

\* CacheOrchestrator.clear_cache(layer) when every store call succeeds:
\* the three `if layer == "n" or layer is None` blocks.
ClearedStores(layer, s0, s1, s2) ==
    <<IF layer \in {"0", Null} THEN ExactClearAll(s0) ELSE s0,
      IF layer \in {"1", Null} THEN NoPoints ELSE s1,
      IF layer \in {"2", Null} THEN << >> ELSE s2>>

\* What the DELETE /api/cache handler leaves with the caller: "cleared"
\* when every store call of the clear succeeded, "clear_failed" when one
\* failed (raised by Redis, or swallowed by a vector layer).
ClearResult(layer, ok) ==
    [NoResult EXCEPT !.status = IF ok THEN "cleared" ELSE "clear_failed",
                     !.cache_layer = layer]

\* DELETE /api/cache as ClearCache, with its outcome kept for the caller.
ClearCall(p, layer) ==
    /\ SameCollections
    /\ InFlight = {}
    /\ \/ /\ l0' = ClearedStores(layer, l0, l1, l2)[1]
          /\ l1' = ClearedStores(layer, l0, l1, l2)[2]
          /\ l2' = ClearedStores(layer, l0, l1, l2)[3]
          /\ result' = [result EXCEPT ![p] = ClearResult(layer, TRUE)]
       \/ /\ layer \in {"0", Null}
          /\ \E K \in SUBSET Keys :
               /\ K # Keys
               /\ l0' = [k \in Keys |-> IF k \in K THEN NoEntry ELSE l0[k]]
          /\ UNCHANGED <<l1, l2>>
          /\ result' = [result EXCEPT ![p] = ClearResult(layer, FALSE)]
       \/ /\ l0' = ClearedStores(layer, l0, l1, l2)[1]
          /\ \/ l1' = l1 /\ layer \in {"1", Null}
                        /\ l2' \in {l2, ClearedStores(layer, l0, l1, l2)[3]}
             \/ l2' = l2 /\ layer \in {"2", Null}
                        /\ l1' \in {l1, ClearedStores(layer, l0, l1, l2)[2]}
          /\ result' = [result EXCEPT ![p] = ClearResult(layer, FALSE)]
    /\ hist' = ForgetHist(Touched(l0, l0'))
    /\ pre' = ForgetPre(Touched(l0, l0'))
    /\ UNCHANGED <<providers, pc, query, llm_provider, response, documents,
                   trace>>

\* ExactCache.delete(query)
Delete(q) ==
    /\ SameCollections
    /\ InFlight = {}
    /\ \/ l0' = ExactDelete(l0, q)
       \/ l0' = l0
    /\ hist' = ForgetHist(Touched(l0, l0'))
    /\ pre' = ForgetPre(Touched(l0, l0'))
    /\ UNCHANGED <<l1, l2, providers, pc, query, llm_provider, response,
                   documents, trace, result>>

\* Time passes: Redis evicts the entries whose TTL has run out.  A request
\* lasts far less than one tick, so time advances between requests.
Elapse ==
    /\ SameCollections
    /\ InFlight = {}
    /\ \E k \in Keys : l0[k] # NoEntry
    /\ l0' = RedisExpire(l0, TickSeconds)
    /\ hist' = ForgetHist({q \in Queries : l0'[GenerateKey(q)] = NoEntry})
    /\ pre' = ForgetPre({q \in Queries : l0'[GenerateKey(q)] = NoEntry})
    /\ UNCHANGED <<l1, l2, providers, pc, query, llm_provider, response,
                   documents, trace, result>>

\* LLMManager.register_custom_provider(provider_name, ...): the provider is
\* constructed first; when its constructor raises, nothing is registered
\* and the error is raised again.
RegisterCustomProvider(name, binding) ==
    /\ SameCollections
    /\ InFlight = {}
    /\ \/ providers' = RegisterProvider(providers, name, binding)
       \/ providers' = providers
    /\ UNCHANGED <<l0, l1, l2, pc, query, llm_provider, response, documents,
                   trace, result, pre, hist>>

\* LLMManager.unregister_provider(provider_name)
UnregisterProviderCall(name) ==
    /\ SameCollections
    /\ InFlight = {}
    /\ providers' = UnregisterProvider(providers, name)
    /\ UNCHANGED <<l0, l1, l2, pc, query, llm_provider, response, documents,
                   trace, result, pre, hist>>

\* The arguments of a register_custom_provider call.
RegisterCall(provider_name, llm_instance, api_endpoint, custom_function) ==
    [provider_name |-> provider_name, llm_instance |-> llm_instance,
     api_endpoint |-> api_endpoint, custom_function |-> custom_function]

\* LLMManager.register_custom_provider with its bindings spelled out:
\* custom_provider = CustomLLMProvider(...) inside try; on success
\* self.providers[provider_name] = custom_provider; on an exception the
\* message is printed and the exception raised again.
RegisterCustomCall(p, provider_name, llm_instance, api_endpoint, custom_function) ==
    /\ SameCollections
    /\ pc[p] = "idle"
    /\ LET custom_provider ==
               CustomLLMProvider(llm_instance, api_endpoint, custom_function)
           call == RegisterCall(provider_name, llm_instance, api_endpoint,
                                custom_function)
       IN  IF custom_provider.raised
           THEN /\ providers' = providers
                /\ trace' = [trace EXCEPT ![p] =
                       <<Event("register_custom_provider", "raise", call, FALSE)>>]
           ELSE /\ providers' = RegisterProvider(providers, provider_name,
                                                 custom_provider.provider)
                /\ trace' = [trace EXCEPT ![p] =
                       <<Event("register_custom_provider", "ok", call, FALSE)>>]
    /\ UNCHANGED <<l0, l1, l2, pc, query, llm_provider, response, documents,
                   result, pre, hist>>

\* LLMManager.unregister_provider called on its own, logged like the
\* registration calls.
UnregisterCall(p, name) ==
    /\ SameCollections
    /\ pc[p] = "idle"
    /\ providers' = UnregisterProvider(providers, name)
    /\ trace' = [trace EXCEPT ![p] =
           <<Event("unregister_provider", "ok", name, FALSE)>>]
    /\ UNCHANGED <<l0, l1, l2, pc, query, llm_provider, response, documents,
                   result, pre, hist>>

\* ------------------------------------------- the Retrieval Layer on its own
\* The arguments and the returned id of an add_document call; id 0 is None.
AddCall(content, enable_chunking, doc_id, metadata) ==
    [content |-> content, enable_chunking |-> enable_chunking, doc_id |-> doc_id,
     metadata |-> metadata]

\* RAGCache.add_document(content) called directly, under either setting of
\* enable_chunking.  The upsert is inside the try block: when it fails
\* nothing is stored and None is returned.  A document without chunks makes
\* an upsert of no points, which the engine may accept or reject.
RagAdd(p, enable_chunking, content, metadata) ==
    /\ SameCollections
    /\ pc[p] = "idle"
    /\ Len(l2) + Len(ChunkText(enable_chunking, content)) <= MaxChunks
    /\ \/ /\ l2' = l2 \o DocumentPoints(enable_chunking, FreshDocId, content, metadata)
          /\ trace' = [trace EXCEPT ![p] =
                 <<Event("l2.add", "ok",
                         AddCall(content, enable_chunking, FreshDocId, metadata),
                         FALSE)>>]
       \/ /\ l2' = l2
          /\ trace' = [trace EXCEPT ![p] =
                 <<Event("l2.add", "fail",
                         AddCall(content, enable_chunking, 0, metadata), FALSE)>>]
    /\ documents' = [documents EXCEPT ![p] = << >>]
    /\ UNCHANGED <<l0, l1, providers, pc, query, llm_provider, response,
                   result, pre, hist>>

\* The documents of a batch: dicts whose "content" is missing (None), empty,
\* blank or a text, with or without a "metadata" dict.
BatchDocs ==
    {[content |-> Null, metadata |-> NoMetadata],
     [content |-> "", metadata |-> NoMetadata],
     [content |-> " ", metadata |-> NoMetadata],
     [content |-> "da", metadata |-> [parent_doc_id |-> -1]],
     [content |-> "dl", metadata |-> [source |-> "manual"]]}
Batches == UNION {[1..n -> BatchDocs] : n \in 1..MaxBatch}

\* Variant of HasContent: only a missing content is skipped.
HasContent_MissingOnly(doc) == doc.content # Null

\* `content = doc.get("content")` passes `if not content: continue`.
HasContent(doc) == Truthy(doc.content)

\* str(uuid.uuid4()) for each document of a batch that has content, in
\* input order; 0 stands for a document that is skipped (`if not content:
\* continue`).
RECURSIVE BatchIds(_, _)
BatchIds(docs, used) ==
    IF docs = << >> THEN << >>
    ELSE IF ~HasContent(docs[1])
         THEN <<0>> \o BatchIds(Tail(docs), used)
         ELSE LET n == CHOOSE m \in 1..(Cardinality(used) + 1) : m \notin used
              IN  <<n>> \o BatchIds(Tail(docs), used \cup {n})

\* The `points` list add_documents_batch accumulates over its documents.
RECURSIVE BatchPoints(_, _, _)
BatchPoints(enable_chunking, docs, ids) ==
    IF docs = << >> THEN << >>
    ELSE (IF ids[1] = 0 THEN << >>
          ELSE DocumentPoints(enable_chunking, ids[1], docs[1].content,
                              docs[1].metadata))
         \o BatchPoints(enable_chunking, Tail(docs), Tail(ids))

\* The arguments and the returned list of an add_documents_batch call.
BatchCall(docs, enable_chunking, doc_ids) ==
    [documents |-> docs, enable_chunking |-> enable_chunking, doc_ids |-> doc_ids]

\* Variant of RagAddBatch: an upsert that fails has stored its first point.
RagAddBatch_PartialOnFail(p, docs) ==
    LET enable_chunking == EnableChunking
        ids == BatchIds(docs, {l2[i].id[1] : i \in 1..Len(l2)})
        points == BatchPoints(enable_chunking, docs, ids)
        doc_ids == SelectSeq(ids, LAMBDA n : n # 0)
    IN  /\ pc[p] = "idle"
        /\ SameCollections
        /\ Len(l2) + Len(points) <= MaxChunks
        /\ \/ /\ l2' = l2 \o points
              /\ trace' = [trace EXCEPT ![p] =
                     <<Event("l2.batch", "ok",
                             BatchCall(docs, enable_chunking, doc_ids), FALSE)>>]
           \/ /\ l2' = l2 \o SubSeq(points, 1, Min(1, Len(points)))
              /\ trace' = [trace EXCEPT ![p] =
                     <<Event("l2.batch", "fail",
                             BatchCall(docs, enable_chunking, << >>), FALSE)>>]
           \/ /\ points # << >>
              /\ l2' = l2
              /\ trace' = [trace EXCEPT ![p] =
                     <<Event("l2.batch", "raise",
                             BatchCall(docs, enable_chunking, << >>), FALSE)>>]
        /\ documents' = [documents EXCEPT ![p] = << >>]
        /\ UNCHANGED <<l0, l1, providers, pc, query, llm_provider, response,
                       result, pre, hist>>

\* RAGCache.add_documents_batch(documents) called directly, with chunking
\* as configured.  The chunks are embedded outside the try block, so an
\* embedding failure propagates; the single upsert is inside it: when it
\* fails nothing is stored and [] is returned.  A batch without chunks
\* makes an upsert of no points, which the engine may accept or reject.
RagAddBatch(p, docs) ==
    LET enable_chunking == EnableChunking
        ids == BatchIds(docs, {l2[i].id[1] : i \in 1..Len(l2)})
        points == BatchPoints(enable_chunking, docs, ids)
        doc_ids == SelectSeq(ids, LAMBDA n : n # 0)
    IN  /\ pc[p] = "idle"
        /\ SameCollections
        /\ Len(l2) + Len(points) <= MaxChunks
        /\ \/ /\ l2' = l2 \o points
              /\ trace' = [trace EXCEPT ![p] =
                     <<Event("l2.batch", "ok",
                             BatchCall(docs, enable_chunking, doc_ids), FALSE)>>]
           \/ /\ l2' = l2
              /\ trace' = [trace EXCEPT ![p] =
                     <<Event("l2.batch", "fail",
                             BatchCall(docs, enable_chunking, << >>), FALSE)>>]
           \/ /\ points # << >>
              /\ l2' = l2
              /\ trace' = [trace EXCEPT ![p] =
                     <<Event("l2.batch", "raise",
                             BatchCall(docs, enable_chunking, << >>), FALSE)>>]
        /\ documents' = [documents EXCEPT ![p] = << >>]
        /\ UNCHANGED <<l0, l1, providers, pc, query, llm_provider, response,
                       result, pre, hist>>

\* RAGCache.get(query, top_k) called directly: the embedding is computed
\* outside the try block, the search inside it; None is returned when the
\* search fails or finds nothing.
RagGet(p, q, top_k) ==
    /\ SameCollections
    /\ pc[p] = "idle"
    /\ query' = [query EXCEPT ![p] = q]
    /\ \/ /\ trace' = [trace EXCEPT ![p] = <<Event("l2.get", "raise", top_k, FALSE)>>]
          /\ documents' = [documents EXCEPT ![p] = << >>]
       \/ /\ trace' = [trace EXCEPT ![p] = <<Event("l2.get", "fail", top_k, FALSE)>>]
          /\ documents' = [documents EXCEPT ![p] = << >>]
       \/ \E s \in RagSearch(l2, q, top_k) :
            LET docs == IF s = << >> THEN << >> ELSE RagDocuments(l2, q, s) IN
            /\ trace' = [trace EXCEPT ![p] =
                   <<Event("l2.get", IF docs # << >> THEN "hit" ELSE "miss",
                           top_k, FALSE)>>]
            /\ documents' = [documents EXCEPT ![p] = docs]
    /\ UNCHANGED <<l0, l1, l2, providers, pc, llm_provider, response,
                   result, pre, hist>>

\* RAGCache.clear_all() called directly: the collection is dropped and
\* created again inside a try block.
RagClear(p) ==
    /\ SameCollections
    /\ pc[p] = "idle"
    /\ l2 # << >>
    /\ \/ l2' = << >>
       \/ l2' = l2
    /\ trace' = [trace EXCEPT ![p] = <<Event("l2.clear", "ok", Null, FALSE)>>]
    /\ documents' = [documents EXCEPT ![p] = << >>]
    /\ UNCHANGED <<l0, l1, providers, pc, query, llm_provider, response,
                   result, pre, hist>>

\* --------------------------------------------- the Exact Layer on its own
\* The ttl arguments of ExactCache.set: 0 stands for an omitted ttl (None;
\* `ttl or settings.cache_ttl` treats both alike), the other lasts two ticks.
TtlArgs == {0, 2 * TickSeconds}

\* The arguments of a set call, and whether the key held a value before it.
SetCall(q, r, ttl, existed) ==
    [query |-> q, response |-> r, ttl |-> ttl, existed |-> existed]

\* ExactCache.set(query, response, ttl) called directly.  There is no
\* exception handler: when Redis fails the call raises and nothing is
\* stored.  trace[p] is the log of the client's successful calls since its
\* last set.
ExSet(p, q, r, ttl) ==
    /\ SameCollections
    /\ pc[p] = "idle"
    /\ \/ /\ l0' = ExactSet(l0, q, r, ttl)
          /\ trace' = [trace EXCEPT ![p] =
                 <<Event("l0.set", "ok",
                         SetCall(q, r, ttl, RedisGet(l0, GenerateKey(q)) # Null),
                         FALSE)>>]
       \/ UNCHANGED <<l0, trace>>
    /\ UNCHANGED <<l1, l2, providers, pc, query, llm_provider, response,
                   documents, result, pre, hist>>

\* ExactCache.get(query) called directly; the log records what it returned.
ExGet(p, q) ==
    /\ SameCollections
    /\ pc[p] = "idle"
    /\ Len(trace[p]) <= MaxLog
    /\ \/ trace' = [trace EXCEPT ![p] =
              Append(@, Event("l0.get",
                              IF ExactGet(l0, q) # Null THEN "hit" ELSE "miss",
                              [query |-> q, response |-> ExactGet(l0, q)], FALSE))]
       \/ UNCHANGED trace
    /\ UNCHANGED <<l0, l1, l2, providers, pc, query, llm_provider, response,
                   documents, result, pre, hist>>

\* ExactCache.delete(query) called directly.
ExDelete(p, q) ==
    /\ SameCollections
    /\ pc[p] = "idle"
    /\ Len(trace[p]) <= MaxLog
    /\ \/ /\ l0' = ExactDelete(l0, q)
          /\ trace' = [trace EXCEPT ![p] =
                 Append(@, Event("l0.delete", "ok", [query |-> q], FALSE))]
       \/ UNCHANGED <<l0, trace>>
    /\ UNCHANGED <<l1, l2, providers, pc, query, llm_provider, response,
                   documents, result, pre, hist>>

\* One tick passes between two calls of the client.
ExElapse(p) ==
    /\ SameCollections
    /\ pc[p] = "idle"
    /\ Len(trace[p]) <= MaxLog
    /\ l0' = RedisExpire(l0, TickSeconds)
    /\ trace' = [trace EXCEPT ![p] =
           Append(@, Event("sleep", "ok", TickSeconds, FALSE))]
    /\ UNCHANGED <<l1, l2, providers, pc, query, llm_provider, response,
                   documents, result, pre, hist>>

\* ----------------------------------------------------------- health check
\* Variant of LayerHealth: the outage is not reported.
LayerHealth_AlwaysTrue(ping) == TRUE

\* health_check of a layer, given how its probe of the store ended
\* (redis ping, Qdrant get_collections): try: probe; return True / except
\* Exception: return False.
LayerHealth(ping) == ping = "ok"

\* The dictionary CacheOrchestrator.health_check returns, given how the
\* probes of the three stores ended.
HealthReport(pings, provs) ==
    [layer0_redis |-> LayerHealth(pings[1]),
     layer1_qdrant |-> LayerHealth(pings[2]),
     layer2_qdrant |-> LayerHealth(pings[3]),
     llm_providers |-> Registered(provs)]

\* GET /api/health: CacheOrchestrator.health_check().  Every layer is
\* probed twice, once for the printed line and once for the report; the
\* log keeps how each probe ended and the report returned.
HealthCall(p) ==
    /\ SameCollections
    /\ pc[p] = "idle"
    /\ \E printed, pings \in [1..3 -> {"ok", "fail"}] :
         trace' = [trace EXCEPT ![p] =
             <<Event("health_check", "ok",
                     [printed |-> printed, pings |-> pings,
                      report |-> HealthReport(pings, providers)], FALSE)>>]
    /\ UNCHANGED <<l0, l1, l2, providers, pc, query, llm_provider, response,
                   documents, result, pre, hist>>

\* ------------------------------------------------- LLMManager on its own
\* LLMManager.__init__: self.providers = {} and _initialize_providers about
\* to run in worker Server.
InitManager ==
    /\ l0 = [k \in Keys |-> NoEntry]
    /\ l1 = NoPoints
    /\ l2 = << >>
    /\ providers = [n \in ManagedNames |-> Null]
    /\ pc = [p \in Procs |-> IF p = Server THEN "mgr.openai" ELSE "idle"]
    /\ query = [p \in Procs |-> Null]
    /\ llm_provider = [p \in Procs |-> Null]
    /\ response = [p \in Procs |-> Null]
    /\ documents = [p \in Procs |-> << >>]
    /\ trace = [p \in Procs |-> << >>]
    /\ result = [p \in Procs |-> NoResult]
    /\ pre = [p \in Procs |-> [hist |-> NoHist, empty |-> FALSE]]
    /\ hist = [q \in Queries |-> NoHist]
    /\ collections = [c \in CollectionNames |-> VectorParams(EmbeddingSize)]
    /\ vector_size = [p \in Procs |-> <<EmbeddingSize>>]

\* The block of _initialize_providers for one provider: skipped without an
\* API key, else the constructor returns or raises.
InitProvider(p, name, next) ==
    /\ SameCollections
    /\ pc[p] = "mgr." \o name
    /\ \E out \in {"skipped", "ok", "fail"} :
         /\ providers' = AfterConstruction(providers, name, out)
         /\ trace' = [trace EXCEPT ![p] = Append(@, Event("mgr.init", out, name, FALSE))]
    /\ pc' = [pc EXCEPT ![p] = next]
    /\ UNCHANGED <<l0, l1, l2, query, llm_provider, response, documents,
                   result, pre, hist>>

InitOpenAI(p) == InitProvider(p, "openai", "mgr.gemini")
InitGemini(p) == InitProvider(p, "gemini", "idle")

\* The provider name asked for and what came back from generate_response.
GenerateCall(provider_name, provider, text) ==
    [provider_name |-> provider_name, provider |-> provider, response |-> text]

\* LLMManager.generate_response(query, None, provider_name) on the manager
\* once constructed; the log keeps the construction and the last call.
ManagerGenerate(p, q, provider_name) ==
    LET lookup == GetProvider(providers, provider_name)
        log == SubSeq(trace[p], 1, Cardinality(ManagedNames))
    IN  /\ pc[p] = "idle"
        /\ SameCollections
        /\ Len(trace[p]) >= Cardinality(ManagedNames)
        /\ \/ /\ ~lookup.found
              /\ trace' = [trace EXCEPT ![p] = Append(log,
                     Event("llm.get_provider", "raise",
                           GenerateCall(provider_name, Null, Null), FALSE))]
           \/ /\ lookup.found
              /\ MayRaise(lookup.provider)
              /\ trace' = [trace EXCEPT ![p] = Append(log,
                     Event("llm", "raise",
                           GenerateCall(provider_name, lookup.provider, Null), FALSE))]
           \/ /\ lookup.found
              /\ \E r \in Completions(lookup.provider, q) :
                   trace' = [trace EXCEPT ![p] = Append(log,
                       Event("llm", "ok",
                             GenerateCall(provider_name, lookup.provider, r), FALSE))]
        /\ query' = [query EXCEPT ![p] = q]
        /\ UNCHANGED <<l0, l1, l2, providers, pc, llm_provider, response,
                       documents, result, pre, hist>>

\* ------------------------------------------- collections of the vector layers
\* A fresh deployment: Qdrant holds no collection and no server instance
\* has been constructed yet.
InitCollections ==
    /\ l0 = [k \in Keys |-> NoEntry]
    /\ l1 = NoPoints
    /\ l2 = << >>
    /\ providers = [n \in ProviderNames |->
                       IF n = "dummy" THEN DummyName ELSE OpenAIName]
    /\ pc = [p \in Procs |-> "down"]
    /\ query = [p \in Procs |-> Null]
    /\ llm_provider = [p \in Procs |-> Null]
    /\ response = [p \in Procs |-> Null]
    /\ documents = [p \in Procs |-> << >>]
    /\ trace = [p \in Procs |-> << >>]
    /\ result = [p \in Procs |-> NoResult]
    /\ pre = [p \in Procs |-> [hist |-> NoHist, empty |-> FALSE]]
    /\ hist = [q \in Queries |-> NoHist]
    /\ collections = [c \in CollectionNames |-> Absent]
    /\ vector_size = [p \in Procs |-> Unset]

\* The statements of _initialize_collection for each layer.
ListAt(name) == IF name = SemanticCollection THEN "l1.list" ELSE "l2.list"
CreateAt(name) == IF name = SemanticCollection THEN "l1.create" ELSE "l2.create"

\* What follows _initialize_collection: the constructor of the coordinator
\* goes on from SemanticCache() to RAGCache(); clear_all returns.
AfterInitialize(p, name) ==
    IF trace[p][1].call = "__init__" /\ name = SemanticCollection
    THEN ListAt(RagCollection)
    ELSE "done"

\* A step of a constructor or of clear_all: only the Qdrant collections, the
\* worker's position and its log of calls change.
CollectionStep(p, next, ev) ==
    /\ pc' = [pc EXCEPT ![p] = next]
    /\ trace' = [trace EXCEPT ![p] = Append(@, ev)]
    /\ UNCHANGED <<l0, providers, query, llm_provider, response, documents,
                   result, pre, hist, vector_size>>

\* CacheOrchestrator() of a server instance whose settings.embedding_model
\* has `size` components: SemanticCache.__init__ and RAGCache.__init__ read
\* vector_size from the model and call _initialize_collection.
Construct(p, size) ==
    /\ pc[p] = "down"
    /\ pc' = [pc EXCEPT ![p] = ListAt(SemanticCollection)]
    /\ vector_size' = [vector_size EXCEPT ![p] = <<size>>]
    /\ trace' = [trace EXCEPT ![p] = <<Event("__init__", "ok", size, FALSE)>>]
    /\ UNCHANGED <<l0, l1, l2, providers, query, llm_provider, response,
                   documents, result, pre, hist, collections>>

\* collections = self.client.get_collections().collections;
\* if self.collection_name not in collection_names: ...
\* An error is caught by _initialize_collection and printed.
GetCollections(p, name) ==
    /\ pc[p] = ListAt(name)
    /\ \/ CollectionStep(p, AfterInitialize(p, name),
                         Event("get_collections", "fail", name, FALSE))
       \/ CollectionStep(p, IF collections[name] = Absent THEN CreateAt(name)
                            ELSE AfterInitialize(p, name),
                         Event("get_collections", "ok", name, FALSE))
    /\ UNCHANGED <<l1, l2, collections>>

\* self.client.create_collection(collection_name, VectorParams(size=
\* self.vector_size, ...)): Qdrant refuses to create a collection that
\* exists; that error, like any other, is caught and printed.
CreateCollection(p, name) ==
    /\ pc[p] = CreateAt(name)
    /\ \/ /\ CollectionStep(p, AfterInitialize(p, name),
                            Event("create_collection", "fail", name, FALSE))
          /\ UNCHANGED collections
       \/ /\ collections[name] # Absent
          /\ CollectionStep(p, AfterInitialize(p, name),
                            Event("create_collection", "exists", name, FALSE))
          /\ UNCHANGED collections
       \/ /\ collections[name] = Absent
          /\ collections' = [collections EXCEPT ![name] = VectorParams(vector_size[p][1])]
          /\ CollectionStep(p, AfterInitialize(p, name),
                            Event("create_collection", "ok", name, FALSE))
    /\ UNCHANGED <<l1, l2>>

\* clear_all of a vector layer: self.client.delete_collection(name), then
\* _initialize_collection(); an error of delete_collection is caught by
\* clear_all, which then returns without re-creating.
DeleteCollection(p, name) ==
    /\ pc[p] = "idle"
    /\ \/ /\ pc' = [pc EXCEPT ![p] = "done"]
          /\ trace' = [trace EXCEPT ![p] =
                 <<Event("delete_collection", "fail", name, FALSE)>>]
          /\ UNCHANGED <<l1, l2, collections>>
       \/ /\ pc' = [pc EXCEPT ![p] = ListAt(name)]
          /\ trace' = [trace EXCEPT ![p] =
                 <<Event("delete_collection", "ok", name, FALSE)>>]
          /\ collections' = [collections EXCEPT ![name] = Absent]
          /\ l1' = IF name = SemanticCollection THEN NoPoints ELSE l1
          /\ l2' = IF name = RagCollection THEN << >> ELSE l2
    /\ UNCHANGED <<l0, providers, query, llm_provider, response, documents,
                   result, pre, hist, vector_size>>

\* The server instance is stopped; it may be started again with another
\* embedding model configured.
Shutdown(p) ==
    /\ pc[p] = "idle"
    /\ pc' = [pc EXCEPT ![p] = "down"]
    /\ vector_size' = [vector_size EXCEPT ![p] = Unset]
    /\ UNCHANGED <<l0, l1, l2, providers, query, llm_provider, response,
                   documents, trace, result, pre, hist, collections>>

\* An instance takes a request whatever the other instance is doing.
Launch(p, q) ==
    /\ PointCount(l1) + Cardinality({o \in Procs : query[o] # Null}) < MaxPoints
    /\ Begin(p, q, Null)

\* ---------------------------------------------------------- specification
\* The statements of query() between its call and its return.
Work(p) ==
    \/ L0Get(p)
    \/ L1Get(p)
    \/ L0SetSem(p)
    \/ L2Get(p)
    \/ GenRag(p)
    \/ L1SetRag(p)
    \/ L0SetRag(p)
    \/ GenMiss(p)
    \/ L0SetMiss(p)
    \/ L1SetMiss(p)

Step(p) ==
    \/ Work(p)
    \/ Return(p)

Next ==
    \/ \E q \in Queries, prov \in Requested : Start(Server, q, prov)
    \/ \E p \in Procs : Step(p)
    \/ \E content \in SpecDocs : AddDocument(content)
    \/ \E layer \in {"0", "1", "2", Null} : ClearCache(layer)
    \/ \E q \in Queries : Delete(q)
    \/ Elapse

Spec == Init /\ [][Next]_vars

\* The server whose provider registry is changed between requests through
\* orchestrator.llm_manager, and whose requests may name a provider.
RegistryRequested == {Null, "dummy", "ghost"}
RegistryQueries == {"qa"}

NextRegistry ==
    \/ \E q \in RegistryQueries, prov \in RegistryRequested : Start(Server, q, prov)
    \/ \E p \in Procs : Step(p)
    \/ \E content \in SpecDocs : AddDocument(content)
    \/ \E n \in ProviderNames, b \in CustomBindings : RegisterCustomProvider(n, b)
    \/ \E n \in ProviderNames \cup {"ghost"} : UnregisterProviderCall(n)

SpecRegistry == Init /\ [][NextRegistry]_vars

\* Two server instances sharing the stores, each running one request for
\* the same query; documents are ingested beforehand.  An instance that
\* has started query() keeps executing it.
NextConcurrent ==
    \/ \E p \in Procs, q \in Queries : Submit(p, q, Null)
    \/ \E p \in Procs : Work(p)
    \/ \E content \in SpecDocs : AddDocument(content)

SpecConcurrent ==
    Init /\ [][NextConcurrent]_vars /\ \A p \in Procs : WF_vars(Work(p))

\* The Retrieval Layer used on its own: documents of every kind are added
\* under either chunking setting and searched with any top_k up to the
\* default.
NextRetrieval ==
    \/ \E e \in BOOLEAN, content \in RetrievalDocs, metadata \in CallerMetadata :
          RagAdd(Server, e, content, metadata)
    \/ \E q \in Queries, top_k \in 1..TopK : RagGet(Server, q, top_k)
    \/ RagClear(Server)

SpecRetrieval == Init /\ [][NextRetrieval]_vars

\* The ingestion side of the Retrieval Layer: documents are added one at a
\* time or in batches, and the collection is cleared.
NextIngest ==
    \/ \E e \in BOOLEAN, content \in RetrievalDocs, metadata \in CallerMetadata :
          RagAdd(Server, e, content, metadata)
    \/ \E docs \in Batches : RagAddBatch(Server, docs)
    \/ RagClear(Server)

SpecIngest == Init /\ [][NextIngest]_vars

\* Batch ingestion on its own.
NextBatch ==
    \/ \E docs \in Batches : RagAddBatch(Server, docs)
    \/ RagClear(Server)

SpecBatch == Init /\ [][NextBatch]_vars

\* The Exact Layer used on its own by one client: sets with and without a
\* ttl, gets and deletes of either query, and the passing of time.
NextExact ==
    \/ \E q \in Queries, r \in Responses \ {""}, ttl \in TtlArgs :
          ExSet(Server, q, r, ttl)
    \/ \E q \in Queries : ExGet(Server, q)
    \/ \E q \in Queries : ExDelete(Server, q)
    \/ ExElapse(Server)

SpecExact == Init /\ [][NextExact]_vars

\* The manager is constructed under any configuration of API keys and any
\* outcome of the constructors, and then asked to generate.
NextManager ==
    \/ InitOpenAI(Server)
    \/ InitGemini(Server)
    \/ \E q \in Queries, n \in ManagedNames \cup {Null, "ghost"} :
          ManagerGenerate(Server, q, n)

SpecManager == InitManager /\ [][NextManager]_vars

\* The serial server with queries, document ingestion and cache clearing.
NextClear ==
    \/ \E q \in Queries : Start(Server, q, Null)
    \/ \E p \in Procs : Step(p)
    \/ \E content \in SpecDocs : AddDocument(content)
    \/ \E layer \in {"0", "1", "2", Null} : ClearCall(Server, layer)

SpecClear == Init /\ [][NextClear]_vars

\* Two server instances in front of a fresh Qdrant.  Both are constructed;
\* one answers queries (no document has been ingested, so every query takes
\* the full-miss path), while the other clears a vector layer, or is stopped
\* and started again, possibly with another embedding model configured.
CollectionQueries == {"qa"}
Peer == "w2"

CollectionWork(p) ==
    \/ \E name \in CollectionNames : GetCollections(p, name)
    \/ \E name \in CollectionNames : CreateCollection(p, name)

MissWork(p) ==
    \/ L0Get(p)
    \/ L1Get(p)
    \/ L2Get(p)
    \/ GenMiss(p)
    \/ L0SetMiss(p)
    \/ L1SetMiss(p)

NextCollections ==
    \/ Construct(Server, EmbeddingSize)
    \/ \E size \in ModelSizes : Construct(Peer, size)
    \/ \E p \in Procs : CollectionWork(p)
    \/ \E name \in CollectionNames : DeleteCollection(Peer, name)
    \/ Shutdown(Peer)
    \/ \E q \in CollectionQueries : Launch(Server, q)
    \/ \E p \in Procs : MissWork(p)
    \/ \E p \in Procs : Return(p)

SpecCollections ==
    InitCollections /\ [][NextCollections]_vars
        /\ \A p \in Procs : WF_vars(CollectionWork(p) \/ MissWork(p))

\* The serial server in front of a Retrieval Layer that already holds
\* documents: none, one long document (two chunks), or two of them (four
\* chunks, more than one retrieval returns).
SeededDocuments ==
    {<< >>,
     DocumentPoints(EnableChunking, 1, "dl", NoMetadata),
     DocumentPoints(EnableChunking, 1, "dl", NoMetadata)
        \o DocumentPoints(EnableChunking, 2, "dl", NoMetadata)}

InitContext ==
    /\ l0 = [k \in Keys |-> NoEntry]
    /\ l1 = NoPoints
    /\ l2 \in SeededDocuments
    /\ providers = [n \in ProviderNames |->
                       IF n = "dummy" THEN DummyName ELSE OpenAIName]
    /\ pc = [p \in Procs |-> "idle"]
    /\ query = [p \in Procs |-> Null]
    /\ llm_provider = [p \in Procs |-> Null]
    /\ response = [p \in Procs |-> Null]
    /\ documents = [p \in Procs |-> << >>]
    /\ trace = [p \in Procs |-> << >>]
    /\ result = [p \in Procs |-> NoResult]
    /\ pre = [p \in Procs |-> [hist |-> NoHist, empty |-> FALSE]]
    /\ hist = [q \in Queries |-> NoHist]
    /\ collections = [c \in CollectionNames |-> VectorParams(EmbeddingSize)]
    /\ vector_size = [p \in Procs |-> <<EmbeddingSize>>]

NextContext ==
    \/ \E q \in Queries : Start(Server, q, Null)
    \/ \E p \in Procs : Step(p)

SpecContext == InitContext /\ [][NextContext]_vars

\* The registry of a server on which custom providers are registered, with
\* any combination of bindings, and unregistered.
NextCustom ==
    \/ \E n \in ProviderNames, i \in LlmInstances, e \in ApiEndpoints,
          f \in CustomFunctions : RegisterCustomCall(Server, n, i, e, f)
    \/ \E n \in ProviderNames : UnregisterCall(Server, n)

SpecCustom == Init /\ [][NextCustom]_vars

\* Health checks of a server whose registry changes and whose stores come
\* and go.
NextHealth ==
    \/ HealthCall(Server)
    \/ \E n \in ProviderNames, b \in CustomBindings : RegisterCustomProvider(n, b)
    \/ \E n \in ProviderNames \cup {"ghost"} : UnregisterProviderCall(n)

SpecHealth == Init /\ [][NextHealth]_vars

\* ================================================================= claims
\* The step in which the request of worker p is answered.
Completes(p) == pc[p] # "done" /\ pc'[p] = "done"

Lookups == {"l0.get", "l1.get", "l2.get"}
Generation == {"llm", "llm.get_provider"}

\* Position of a call in the hierarchy.
Rank(call) ==
    CASE call = "l0.get" -> 0
      [] call = "l1.get" -> 1
      [] call = "l2.get" -> 2
      [] call \in Generation -> 3
      [] OTHER -> 4

\* The layers are looked up in hierarchy order, none skipped, none twice.
InOrder(tr) ==
    \A i \in 1..Len(tr) :
        Rank(tr[i].call) <= 3 =>
            /\ \A j \in 1..(i - 1) : Rank(tr[j].call) < Rank(tr[i].call)
            /\ \A r \in 0..(Rank(tr[i].call) - 1) :
                 \E j \in 1..(i - 1) : Rank(tr[j].call) = r

\* Once a layer hits, no later layer lookup is issued.
HitStopsLookups(tr) ==
    \A i \in 1..Len(tr) :
        (tr[i].call \in Lookups /\ tr[i].out = "hit") =>
            \A j \in (i + 1)..Len(tr) : tr[j].call \notin Lookups

\* C1 as stated: the coordinator consults the Exact Layer, the Semantic
\* Layer, the Retrieval Layer and the Generation Gateway strictly in that
\* order; a layer or generation is consulted only after every earlier layer
\* has missed, and once a layer hits no later layer lookup is issued.
C1_StrictOrderOriginal ==
    \A p \in Procs :
        /\ InOrder(trace[p])
        /\ HitStopsLookups(trace[p])
        /\ \A i \in 1..Len(trace[p]) :
             Rank(trace[p][i].call) <= 3 =>
                \A j \in 1..(i - 1) :
                    trace[p][j].call \in Lookups => trace[p][j].out # "hit"

\* C1 amended: same order; a layer is looked up only after every earlier
\* layer has missed; generation is invoked only after the Exact and the
\* Semantic Layer have missed and the Retrieval Layer has been looked up,
\* whether it returned documents (then with a context) or not (then
\* without); once a layer hits no later layer lookup is issued.
C1_LookupOrder ==
    \A p \in Procs :
        /\ InOrder(trace[p])
        /\ HitStopsLookups(trace[p])
        /\ \A i \in 1..Len(trace[p]) :
             LET e == trace[p][i] IN
             /\ e.call \in Lookups =>
                  \A j \in 1..(i - 1) :
                      trace[p][j].call \in Lookups => trace[p][j].out # "hit"
             /\ e.call \in Generation =>
                  \A j \in 1..(i - 1) :
                      /\ trace[p][j].call \in {"l0.get", "l1.get"}
                            => trace[p][j].out # "hit"
                      /\ trace[p][j].call = "l2.get"
                            => (e.ctx <=> trace[p][j].out = "hit")

\* A request went through all four stages, retrieval returning documents.
C1_Witness ==
    \E p \in Procs :
        /\ pc[p] = "done"
        /\ Len(trace[p]) >= 4
        /\ trace[p][3].call = "l2.get" /\ trace[p][3].out = "hit"
        /\ trace[p][4].call = "llm" /\ trace[p][4].out = "ok"

\* C2: a query that hits the Exact Layer responds with no writes: the step
\* that answers it leaves the Exact, Semantic and Retrieval layers as they
\* were, and the only collaborator call of the whole request is the Exact
\* lookup (no set, no generation).
C2_ExactHitNoWrites ==
    [][\A p \in Procs :
          (Completes(p) /\ result'[p].cache_layer = Layer0Name) =>
              /\ UNCHANGED <<l0, l1, l2>>
              /\ trace[p] = << >>
              /\ trace'[p] = <<Event("l0.get", "hit", result'[p].response, FALSE)>>
              /\ ~result'[p].llm_called]_vars

C2_Witness ==
    \E p \in Procs :
        /\ pc[p] = "done"
        /\ result[p].cache_layer = Layer0Name
        /\ \E k \in PointKinds : l1[k] > 0

\* C3: promotion.  When a request ends as a Semantic-Layer hit, the Exact
\* Layer already holds its response under the query's key; and a later
\* identical request, with no clear, delete or expiry of that entry in
\* between, ends as an Exact-Layer hit with the same response.
C3_Promotion ==
    /\ [][\A p \in Procs :
            (Completes(p) /\ result'[p].cache_layer = Layer1Name) =>
                /\ Truthy(result'[p].response)
                /\ ExactGet(l0', query[p]) = result'[p].response]_vars
    /\ [](\A p \in Procs :
            (pc[p] = "done" /\ pre[p].hist.kind = "semantic" /\ Nominal(trace[p])) =>
                /\ result[p].status = "ok"
                /\ result[p].cache_layer = Layer0Name
                /\ result[p].response = pre[p].hist.response)

C3_Witness ==
    \E p \in Procs :
        /\ pc[p] = "done"
        /\ pre[p].hist.kind = "semantic"
        /\ result[p].cache_layer = Layer0Name
        /\ result[p].response = pre[p].hist.response

\* The answering step of a full miss (all three lookups missed, generation
\* returned a text) whose calls all succeeded.
FullMissAnswered(p) ==
    /\ Completes(p)
    /\ result'[p].status = "ok"
    /\ result'[p].cache_layer = Null
    /\ Nominal(trace'[p])

RECURSIVE LlmCalls(_)
LlmCalls(tr) ==
    IF tr = << >> THEN 0
    ELSE (IF Head(tr).call = "llm" THEN 1 ELSE 0) + LlmCalls(Tail(tr))

\* First request on empty caches: misses every layer, one generation call,
\* cache_hit = false and llm_called = true.
FirstOnEmpty(p) ==
    (pc[p] = "done" /\ pre[p].empty /\ Nominal(trace[p])) =>
        /\ result[p].status = "ok"
        /\ result[p].cache_layer = Null
        /\ ~result[p].cache_hit
        /\ result[p].llm_called
        /\ LlmCalls(trace[p]) = 1
        /\ \A i \in 1..Len(trace[p]) :
             trace[p][i].call \in Lookups => trace[p][i].out = "miss"

\* Identical second request: answered by the Exact Layer with the same
\* response, cache_hit = true, llm_called = false, no generation call.
SecondIsExactHit(p) ==
    /\ result[p].status = "ok"
    /\ result[p].cache_layer = Layer0Name
    /\ result[p].response = pre[p].hist.response
    /\ result[p].cache_hit
    /\ ~result[p].llm_called
    /\ LlmCalls(trace[p]) = 0

\* C5 as stated: on empty caches the first occurrence of a query misses all
\* layers, invokes generation exactly once and reports cache_hit=false,
\* llm_called=true; an identical second query is answered by the Exact
\* Layer with the same response, cache_hit=true, llm_called=false, without
\* invoking generation.
C5_EndToEndOriginal ==
    \A p \in Procs :
        /\ FirstOnEmpty(p)
        /\ (pc[p] = "done" /\ pre[p].hist.kind = "first" /\ Nominal(trace[p]))
              => SecondIsExactHit(p)

\* C5 amended: the same, the second half for a first request whose
\* generated response is not empty.
C5_EndToEnd ==
    \A p \in Procs :
        /\ FirstOnEmpty(p)
        /\ (/\ pc[p] = "done"
            /\ pre[p].hist.kind = "first"
            /\ Truthy(pre[p].hist.response)
            /\ Nominal(trace[p]))
              => SecondIsExactHit(p)

\* The identical second request has been answered by the Exact Layer.
C5_Witness ==
    \E p \in Procs :
        /\ pc[p] = "done"
        /\ pre[p].hist.kind = "first"
        /\ Truthy(pre[p].hist.response)
        /\ result[p].cache_layer = Layer0Name
        /\ ~result[p].llm_called

\* C6: when the Exact and Semantic layers miss and the Retrieval Layer
\* returns documents, the coordinator calls generation exactly once, with a
\* context, then writes the generated response to the Semantic Layer and
\* then to the Exact Layer, and answers with llm_called = true.
C6_RetrievalPath ==
    /\ [](\A p \in Procs :
            (/\ pc[p] = "done"
             /\ Nominal(trace[p])
             /\ Len(trace[p]) >= 3
             /\ trace[p][3].call = "l2.get"
             /\ trace[p][3].out = "hit") =>
                LET r == result[p].response IN
                /\ result[p].status = "ok"
                /\ result[p].llm_called
                /\ documents[p] # << >>
                /\ trace[p] = << Event("l0.get", "miss", Null, FALSE),
                                 trace[p][2],
                                 Event("l2.get", "hit", Null, FALSE),
                                 Event("llm", "ok", r, TRUE),
                                 Event("l1.set", "ok", r, FALSE),
                                 Event("l0.set", "ok", r, FALSE) >>
                /\ trace[p][2].call = "l1.get" /\ trace[p][2].out = "miss")
    /\ [][\A p \in Procs :
            (Completes(p) /\ result'[p].cache_layer = Layer2Name
                /\ Nominal(trace'[p])) =>
                /\ RedisGet(l0', GenerateKey(query[p])) = result'[p].response
                /\ l1'[<<query[p], result'[p].response>>] > 0]_vars

C6_Witness ==
    \E p \in Procs :
        /\ pc[p] = "done"
        /\ Nominal(trace[p])
        /\ result[p].cache_layer = Layer2Name
        /\ Len(documents[p]) = 2
        /\ result[p].llm_called

\* A write-back call of the trace that failed.
FailedWriteBack(e) == e.call \in {"l0.set", "l1.set"} /\ e.out # "ok"

\* C7: a write-back failure never fails the query: when the Exact-Layer set
\* after a Semantic hit, or the Exact-Layer or Semantic-Layer set after
\* generation, fails, the request still returns the response it computed.
C7_WriteBackNeverFatal ==
    \A p \in Procs :
        (\E i \in 1..Len(trace[p]) : FailedWriteBack(trace[p][i])) =>
            /\ result[p].status # "error"
            /\ pc[p] = "done" => (result[p].status = "ok"
                                  /\ result[p].response = response[p])

\* C8: when Redis is unavailable or errors during an Exact-Layer get, the
\* get surfaces as a miss and the request goes on to the Semantic Layer.
C8_ExactGetFailOpen ==
    \A p \in Procs :
        (/\ Len(trace[p]) >= 1
         /\ trace[p][1].call = "l0.get"
         /\ trace[p][1].out \in {"raise", "fail"}) =>
            /\ result[p].status # "error"
            /\ \/ pc[p] = "l1get"
               \/ Len(trace[p]) >= 2 /\ trace[p][2].call = "l1.get"

\* C9: a vector search that errors or times out during a Semantic-Layer or
\* Retrieval-Layer lookup is a miss: the layer returns None without raising
\* and the coordinator goes on to the next layer, or to generation without
\* a context.
C9_SearchErrorIsMiss ==
    \A p \in Procs :
        \A i \in 1..Len(trace[p]) :
            LET e == trace[p][i] IN
            /\ (e.call = "l1.get" /\ e.out = "fail") =>
                  /\ e.val = Null
                  /\ IF i = Len(trace[p])
                     THEN pc[p] = "l2get" /\ response[p] = Null
                     ELSE trace[p][i + 1].call = "l2.get"
            /\ (e.call = "l2.get" /\ e.out = "fail") =>
                  /\ documents[p] = << >>
                  /\ IF i = Len(trace[p])
                     THEN pc[p] = "gen"
                     ELSE /\ trace[p][i + 1].call \in Generation
                          /\ ~trace[p][i + 1].ctx

\* Both vector searches failed and the request was still answered.
C9_Witness ==
    \E p \in Procs :
        /\ pc[p] = "done"
        /\ result[p].status = "ok"
        /\ Len(trace[p]) >= 4
        /\ trace[p][2].call = "l1.get" /\ trace[p][2].out = "fail"
        /\ trace[p][3].call = "l2.get" /\ trace[p][3].out = "fail"
        /\ trace[p][4].call = "llm" /\ trace[p][4].out = "ok"

\* C10: a generation failure, on the retrieval path or on the full-miss
\* path, is fatal to the request: the error reaches the caller, no response
\* is returned, and nothing further is attempted.
C10_GenerationFailureFatal ==
    \A p \in Procs :
        \A i \in 1..Len(trace[p]) :
            (trace[p][i].call = "llm" /\ trace[p][i].out = "raise") =>
                /\ i = Len(trace[p])
                /\ pc[p] = "done"
                /\ result[p] = ErrorResult
                /\ result[p].response = Null

\* Generation failed on the retrieval path.
C10_Witness ==
    \E p \in Procs :
        /\ pc[p] = "done"
        /\ result[p].status = "error"
        /\ Len(trace[p]) = 4
        /\ trace[p][3].out = "hit"
        /\ trace[p][4].call = "llm" /\ trace[p][4].out = "raise"
        /\ trace[p][4].ctx

\* C11: an embedding failure is never raised to the query path: during a
\* Semantic-Layer or Retrieval-Layer get it is treated as a miss (the
\* request goes on), and during a Semantic-Layer set it is a failed write
\* (the request still answers).
C11_EmbeddingFailureContained ==
    \A p \in Procs :
        \A i \in 1..Len(trace[p]) :
            (/\ trace[p][i].call \in {"l1.get", "l2.get", "l1.set"}
             /\ trace[p][i].out = "raise") =>
                /\ result[p].status # "error"
                /\ pc[p] = "done" => result[p].status = "ok"

\* The name a request's provider lookup resolves to.
EffectiveName(p) == IF Truthy(llm_provider[p]) THEN llm_provider[p] ELSE DefaultLLM

\* C12: looking up a provider whose name is not registered, whether the
\* name was requested explicitly or is the configured default used because
\* none was requested, fails with a NotFound condition that names exactly
\* the providers registered at that moment, after any sequence of register
\* and unregister operations; a registered name is never reported missing.
C12_NotFoundListsRegistered ==
    \A p \in Procs :
        \A i \in 1..Len(trace[p]) :
            trace[p][i].call \in Generation =>
                IF EffectiveName(p) \in Registered(providers)
                THEN trace[p][i].call = "llm"
                ELSE /\ trace[p][i].call = "llm.get_provider"
                     /\ trace[p][i].out = "raise"
                     /\ i = Len(trace[p])
                     /\ pc[p] = "done"
                     /\ result[p].status = "error"
                     /\ result[p].detail.name = EffectiveName(p)
                     /\ result[p].detail.available = Registered(providers)

\* The default provider was unregistered and the dummy provider replaced
\* before a request without a provider name failed.
C12_Witness ==
    \E p \in Procs :
        /\ pc[p] = "done"
        /\ llm_provider[p] = Null
        /\ result[p].status = "error"
        /\ result[p].detail = [name |-> "openai", available |-> {"dummy"}]
        /\ providers["dummy"] = LocalName

\* C13: registering a provider under a name that is already registered
\* replaces the prior binding: afterwards lookup by that name returns the
\* newly registered provider, the set of registered names is unchanged and
\* every other name keeps its binding; the requests served afterwards
\* report the provider now bound to the name.
C13_RegisterReplaces ==
    /\ \A n \in Registered(providers), b \in CustomBindings :
          LET new == RegisterProvider(providers, n, b) IN
          /\ GetProvider(new, n).found
          /\ GetProvider(new, n).provider = b
          /\ Registered(new) = Registered(providers)
          /\ \A m \in DOMAIN providers \ {n} : new[m] = providers[m]
    /\ \A p \in Procs :
          (pc[p] = "done" /\ result[p].status = "ok" /\ result[p].llm_called) =>
              result[p].llm_provider = providers[EffectiveName(p)]

\* The default name was registered again with a client's own model, which
\* then served a request; the other binding is the one made at startup.
C13_Witness ==
    \E p \in Procs :
        /\ pc[p] = "done"
        /\ llm_provider[p] = Null
        /\ result[p].status = "ok"
        /\ result[p].llm_provider = LocalName
        /\ providers["openai"] = LocalName
        /\ providers["dummy"] = DummyName

\* The last call of worker p's request, if it has issued one.
LastCall(p) == trace[p][Len(trace[p])]

\* C14: exact-match idempotence.  For any non-empty query q and non-empty
\* response r, Exact-Layer set(q, r) followed immediately by get(q) returns
\* exactly r, whatever the store held for q or for other queries and
\* whatever ttl is passed; and right after every write-back of a non-empty
\* response the Exact Layer returns it for the request's query.
C14_ExactSetThenGet ==
    /\ [](\A q \in Queries, r \in Responses, ttl \in {0, 1, CacheTTL} :
            Truthy(r) => ExactGet(ExactSet(l0, q, r, ttl), q) = r)
    /\ [][\A p \in Procs :
            (/\ Len(trace'[p]) = Len(trace[p]) + 1
             /\ trace'[p][Len(trace'[p])].call = "l0.set"
             /\ trace'[p][Len(trace'[p])].out = "ok"
             /\ Truthy(trace'[p][Len(trace'[p])].val)) =>
                ExactGet(l0', query[p]) = trace'[p][Len(trace'[p])].val]_vars

\* A write-back has just stored a response while the Exact Layer holds a
\* different response for the other query.
C14_Witness ==
    \E p \in Procs :
        /\ trace[p] # << >>
        /\ LastCall(p).call = "l0.set" /\ LastCall(p).out = "ok"
        /\ Truthy(LastCall(p).val)
        /\ ExactGet(l0, query[p]) = LastCall(p).val
        /\ \E q \in Queries \ {query[p]} :
              Truthy(ExactGet(l0, q)) /\ ExactGet(l0, q) # LastCall(p).val

\* The queries put to the Semantic Layer when the layer is examined on its
\* own: those of the requests and qc.
ProbeQueries == Queries \cup {"qc"}

\* The stored points that score highest for a query.
BestPoints(points, q) ==
    LET stored == {k \in PointKinds : points[k] > 0}
    IN  {k \in stored : \A j \in stored :
            Score(Embed(q), Embed(j[1])) <= Score(Embed(q), Embed(k[1]))}

SemanticSetDone(p) ==
    /\ Len(trace'[p]) = Len(trace[p]) + 1
    /\ trace'[p][Len(trace'[p])].call = "l1.set"
    /\ trace'[p][Len(trace'[p])].out = "ok"

\* C16: Semantic-Layer set always inserts a new point and never overwrites:
\* every successful set adds exactly one point, carrying the query and the
\* response it was called with, and leaves every stored point as it was;
\* nothing but a clear changes the collection otherwise.  Hence n
\* successful sets on an empty collection, identical queries included,
\* leave exactly n points.
C16_SetInserts ==
    [][/\ \A p \in Procs :
            SemanticSetDone(p) =>
                /\ PointCount(l1') = PointCount(l1) + 1
                /\ l1' = [l1 EXCEPT
                            ![<<query[p], trace'[p][Len(trace'[p])].val>>] = @ + 1]
       /\ (\A p \in Procs : ~SemanticSetDone(p)) =>
                (l1' = l1 \/ l1' = NoPoints)]_vars

\* The same query has been stored twice with the same response: the
\* collection holds two identical points.
C16_Witness ==
    \E p \in Procs :
        /\ pc[p] = "done"
        /\ LastCall(p).call = "l1.set" /\ LastCall(p).out = "ok"
        /\ l1[<<query[p], LastCall(p).val>>] = 2
        /\ PointCount(l1) = 2

\* Worker p issues one more call in this step, and it is a successful
\* Exact-Layer set.
ExactSetDone(p) ==
    /\ Len(trace'[p]) = Len(trace[p]) + 1
    /\ trace'[p][Len(trace'[p])].call = "l0.set"
    /\ trace'[p][Len(trace'[p])].out = "ok"

\* Number of successful Semantic-Layer sets in a trace.
RECURSIVE SetCount(_)
SetCount(tr) ==
    IF tr = << >> THEN 0
    ELSE (IF Head(tr).call = "l1.set" /\ Head(tr).out = "ok" THEN 1 ELSE 0)
         + SetCount(Tail(tr))

RECURSIVE SumOver(_, _)
SumOver(f, S) ==
    IF S = {} THEN 0
    ELSE LET x == CHOOSE y \in S : TRUE IN f[x] + SumOver(f, S \ {x})

\* C17: under every interleaving of two concurrent identical queries on
\* empty caches, both queries complete, successfully when their calls
\* succeed (both may miss every layer and both invoke generation); the
\* Exact Layer is last-write-wins: every set leaves its response under the
\* query's key and nothing else writes it, so that afterwards the layer
\* holds exactly one entry for the query, with the response of the set that
\* executed last; and the Semantic Layer holds one point per populating
\* query, duplicates included.
C17_ConcurrentIdentical ==
    /\ [][/\ \A p \in Procs :
                ExactSetDone(p) =>
                    l0' = RedisSetex(l0, GenerateKey(query[p]), CacheTTL,
                                     trace'[p][Len(trace'[p])].val)
          /\ (\A p \in Procs : ~ExactSetDone(p)) => l0' = l0]_vars
    /\ []((\A p \in Procs : pc[p] = "done" /\ Nominal(trace[p])) =>
            /\ \A p \in Procs : result[p].status = "ok"
            /\ \A p, o \in Procs : query[p] = query[o]
            /\ \A p \in Procs :
                  /\ {k \in Keys : l0[k] # NoEntry} = {GenerateKey(query[p])}
                  /\ \E o \in Procs : \E i \in 1..Len(trace[o]) :
                        /\ trace[o][i].call = "l0.set"
                        /\ trace[o][i].val = RedisGet(l0, GenerateKey(query[p]))
                  /\ \A i \in 1..Len(trace[p]) :
                        (trace[p][i].call = "l1.set") =>
                            l1[<<query[p], trace[p][i].val>>] > 0
            /\ PointCount(l1) = SumOver([p \in Procs |-> SetCount(trace[p])], Procs))
    /\ \A p \in Procs : (pc[p] # "idle") ~> (pc[p] = "done")

\* Both requests missed every layer and generated, with different
\* responses: two points for the query, one Exact-Layer entry.
C17_Witness ==
    /\ \A p \in Procs :
          /\ pc[p] = "done"
          /\ pre[p].empty
          /\ result[p].status = "ok"
          /\ result[p].cache_layer = Null
          /\ result[p].llm_called
    /\ \E p, o \in Procs : result[p].response # result[o].response
    /\ PointCount(l1) = 2
    /\ \E p \in Procs : RedisGet(l0, GenerateKey(query[p])) = result[p].response

\* The layer whose lookup hit in a trace, None when none did.
HitLayer(tr) ==
    IF \E i \in 1..Len(tr) : tr[i].call = "l0.get" /\ tr[i].out = "hit"
    THEN Layer0Name
    ELSE IF \E i \in 1..Len(tr) : tr[i].call = "l1.get" /\ tr[i].out = "hit"
    THEN Layer1Name
    ELSE IF \E i \in 1..Len(tr) : tr[i].call = "l2.get" /\ tr[i].out = "hit"
    THEN Layer2Name
    ELSE Null

\* C18: every successful terminal response reports the layer that produced
\* the hit (none on a full miss), llm_called true exactly when generation
\* was invoked during the request, the elapsed time, for retrieval hits the
\* number of retrieved documents, and, when generation was invoked, the
\* name of the provider that served it (none otherwise).
C18_ResponseFields ==
    \A p \in Procs :
        (pc[p] = "done" /\ result[p].status = "ok") =>
            /\ result[p].cache_layer = HitLayer(trace[p])
            /\ result[p].cache_hit <=> (HitLayer(trace[p]) # Null)
            /\ result[p].llm_called <=> (LlmCalls(trace[p]) > 0)
            /\ result[p].elapsed_time = Elapsed
            /\ HitLayer(trace[p]) = Layer2Name =>
                  /\ result[p].rag_documents = Len(documents[p])
                  /\ result[p].rag_documents > 0
            /\ IF result[p].llm_called
               THEN /\ result[p].llm_provider # Null
                    /\ result[p].llm_provider = providers[EffectiveName(p)]
               ELSE result[p].llm_provider = Null

\* A retrieval hit served by the provider the request named, after that
\* name had been registered again.
C18_Witness ==
    \E p \in Procs :
        /\ pc[p] = "done"
        /\ result[p].status = "ok"
        /\ result[p].cache_layer = Layer2Name
        /\ result[p].rag_documents = 1
        /\ llm_provider[p] = "dummy"
        /\ result[p].llm_provider = LocalName
        /\ result[p].llm_called

\* The stored chunks that qualify for a query: score at or above the
\* retrieval threshold.
Qualifying(points, q) ==
    {i \in 1..Len(points) :
        Score(Embed(q), Embed(points[i].content)) >= RagThreshold}

ChunksOf(points, doc_id) ==
    SelectSeq(points, LAMBDA pt : pt.id[1] = doc_id)

\* C20: chunk round-trip.  With chunking enabled, a document that fits in
\* one chunk is stored as exactly one chunk flagged is_chunked = false, and
\* a document that requires splitting is stored as N > 1 chunks that all
\* share the same parent id, all carry total_chunks = N and are all flagged
\* is_chunked = true; with chunking disabled a document is always stored as
\* exactly one chunk equal to its full content.
C20_ChunkRoundTrip ==
    \A p \in Procs :
        (/\ Len(trace[p]) = 1
         /\ trace[p][1].call = "l2.add"
         /\ trace[p][1].out = "ok") =>
            LET call == trace[p][1].val
                stored == ChunksOf(l2, call.doc_id)
                N == Len(stored)
            IN  /\ (call.enable_chunking /\ TokenLength(call.content) <= ChunkSize) =>
                      /\ N = 1
                      /\ ~stored[1].metadata.is_chunked
                /\ (call.enable_chunking /\ TokenLength(call.content) > ChunkSize) =>
                      /\ N > 1
                      /\ \A i \in 1..N :
                            /\ stored[i].metadata.parent_doc_id = call.doc_id
                            /\ stored[i].metadata.total_chunks = N
                            /\ stored[i].metadata.is_chunked
                /\ ~call.enable_chunking =>
                      /\ N = 1
                      /\ stored[1].content = call.content

\* The point id add_document gives chunk number i of the N chunks of doc_id.
ExpectedId(doc_id, i, N) ==
    IF N = 1 THEN <<doc_id>> ELSE <<doc_id, "_chunk_", i>>

\* The stored chunks of doc_id carry its id as parent, their position
\* 0..N-1 as index, N as total, and the expected point id.
ChunksRecorded(doc_id) ==
    LET stored == ChunksOf(l2, doc_id)
        N == Len(stored)
    IN  \A i \in 1..N :
            /\ stored[i].metadata.parent_doc_id = doc_id
            /\ stored[i].metadata.chunk_index = i - 1
            /\ stored[i].metadata.total_chunks = N
            /\ stored[i].id = ExpectedId(doc_id, i - 1, N)

\* C21: for every document added through add_document or
\* add_documents_batch, with any caller-supplied metadata, each of its N
\* stored chunks records in its metadata a parent document id equal to the
\* document id returned to the caller, a chunk index equal to its position
\* in 0..N-1 and a total chunk count equal to N; its point id is the
\* document id when N = 1 and {docId}_chunk_{index} otherwise.
C21_ChunkMetadata ==
    \A p \in Procs :
        /\ (/\ Len(trace[p]) = 1
            /\ trace[p][1].call = "l2.add"
            /\ trace[p][1].out = "ok") =>
               ChunksRecorded(trace[p][1].val.doc_id)
        /\ (/\ Len(trace[p]) = 1
            /\ trace[p][1].call = "l2.batch"
            /\ trace[p][1].out = "ok") =>
               \A j \in 1..Len(trace[p][1].val.doc_ids) :
                   ChunksRecorded(trace[p][1].val.doc_ids[j])

\* The documents of a batch whose content is neither missing nor empty.
NonEmptyDocs(docs) == SelectSeq(docs, LAMBDA d : d.content \notin {Null, ""})

\* The step is a successful add_documents_batch call of worker p.
BatchDone(p) ==
    /\ Len(trace'[p]) = 1
    /\ trace'[p][1].call = "l2.batch"
    /\ trace'[p][1].out = "ok"
    /\ <<l2, trace>>' # <<l2, trace>>

\* C22: add_documents_batch skips every document with empty or missing
\* content: on success the returned id list contains exactly one fresh id
\* per non-empty input document, in input order, and no chunk is stored for
\* a skipped document (every point added belongs to a returned id, and the
\* j-th returned id holds the chunks of the j-th non-empty document).
C22_BatchSkipsEmpty ==
    [][\A p \in Procs :
          BatchDone(p) =>
              LET call == trace'[p][1].val
                  kept == NonEmptyDocs(call.documents)
                  ids == call.doc_ids
                  added == SubSeq(l2', Len(l2) + 1, Len(l2'))
              IN  /\ Len(ids) = Len(kept)
                  /\ \A j, k \in 1..Len(ids) : j # k => ids[j] # ids[k]
                  /\ \A j \in 1..Len(ids), i \in 1..Len(l2) : l2[i].id[1] # ids[j]
                  /\ SubSeq(l2', 1, Len(l2)) = l2
                  /\ \A i \in 1..Len(added) :
                        \E j \in 1..Len(ids) : added[i].id[1] = ids[j]
                  /\ \A j \in 1..Len(ids) :
                        LET stored == ChunksOf(l2', ids[j])
                        IN  [i \in 1..Len(stored) |-> stored[i].content]
                                = ChunkText(call.enable_chunking, kept[j].content)
                  /\ \A j, k \in 1..Len(ids) :
                        j < k => \A a, b \in 1..Len(added) :
                            (added[a].id[1] = ids[j] /\ added[b].id[1] = ids[k])
                                => a < b]_vars

\* A batch of a document without content, an empty one and a long one was
\* stored: one id came back and the two chunks stored are those of the
\* long document.
C22_Witness ==
    \E p \in Procs :
        /\ Len(trace[p]) = 1
        /\ trace[p][1].call = "l2.batch" /\ trace[p][1].out = "ok"
        /\ Len(trace[p][1].val.documents) = 2
        /\ trace[p][1].val.documents[1].content \in {Null, ""}
        /\ trace[p][1].val.documents[2].content = "dl"
        /\ Len(trace[p][1].val.doc_ids) = 1
        /\ Len(ChunksOf(l2, trace[p][1].val.doc_ids[1])) = 2
        /\ Len(l2) = 2

\* Seconds slept in a log of calls.
Slept(log) == TickSeconds * Cardinality({i \in 1..Len(log) : log[i].call = "sleep"})

\* The log holds a delete of query q.
Deleted(log, q) ==
    \E i \in 1..Len(log) : log[i].call = "l0.delete" /\ log[i].val.query = q

\* The log of client p starts with a set call.
AfterSet(p) == Len(trace[p]) >= 1 /\ trace[p][1].call = "l0.set"

\* C23: every Exact-Layer set(q, r, ttl) unconditionally overwrites any
\* existing entry for q (no merge) and restarts its expiry at ttl, using the
\* configured default TTL when ttl is omitted; once the TTL elapses without
\* another set, get(q) returns absent.  Right after the set the entry is
\* exactly (r, ttl); while less than ttl has passed and q was not deleted
\* the entry is r with the rest of ttl, and get(q) returns r; every get(q)
\* issued once ttl has passed returns absent.
C23_SetOverwritesAndExpires ==
    \A p \in Procs :
        AfterSet(p) =>
            LET log == trace[p]
                set == log[1].val
                key == GenerateKey(set.query)
                T == IF set.ttl = 0 THEN CacheTTL ELSE set.ttl
            IN  /\ Len(log) = 1 => l0[key] = [value |-> set.response, ttl |-> T]
                /\ (Slept(log) < T /\ ~Deleted(log, set.query)) =>
                      l0[key] = [value |-> set.response, ttl |-> T - Slept(log)]
                /\ Slept(log) >= T => l0[key] = NoEntry
                /\ \A i \in 2..Len(log) :
                      (log[i].call = "l0.get" /\ log[i].val.query = set.query) =>
                          LET before == SubSeq(log, 1, i)
                          IN  /\ Slept(before) >= T => log[i].val.response = Null
                              /\ (Slept(before) < T /\ ~Deleted(before, set.query)) =>
                                    log[i].val.response = set.response

\* An entry with time left was overwritten by a set without ttl, which gave
\* it the default TTL anew; a get found the new response; after the default
\* TTL had passed, a get found nothing.
C23_Witness ==
    \E p \in Procs :
        /\ AfterSet(p)
        /\ Len(trace[p]) = 4
        /\ trace[p][1].val.existed
        /\ trace[p][1].val.ttl = 0
        /\ trace[p][2].call = "l0.get"
        /\ trace[p][2].val = [query |-> trace[p][1].val.query,
                              response |-> trace[p][1].val.response]
        /\ trace[p][3].call = "sleep"
        /\ trace[p][4].call = "l0.get"
        /\ trace[p][4].val = [query |-> trace[p][1].val.query, response |-> Null]

\* How the construction of a managed provider ended, as logged by worker p
\* ("-" while it has not been attempted).
Constructed(p, name) ==
    IF \E i \in 1..Len(trace[p]) :
           trace[p][i].call = "mgr.init" /\ trace[p][i].val = name
    THEN LET i == CHOOSE j \in 1..Len(trace[p]) :
                      trace[p][j].call = "mgr.init" /\ trace[p][j].val = name
         IN  trace[p][i].out
    ELSE "-"

\* C24: a construction failure of one managed provider during manager
\* initialisation is isolated: initialisation completes (a failed
\* constructor is followed by the next block, and by a usable manager after
\* the last), the failed provider is absent from the registry, and every
\* provider that constructed successfully is registered and usable (a
\* generation that names it reaches that provider).
C24_InitFailureIsolated ==
    LET p == Server IN
    /\ pc[p] \in {"mgr.openai", "mgr.gemini", "idle"}
    /\ Constructed(p, "openai") # "-" => pc[p] \in {"mgr.gemini", "idle"}
    /\ Constructed(p, "gemini") # "-" => pc[p] = "idle"
    /\ \A n \in ManagedNames :
          /\ Constructed(p, n) = "fail" => n \notin Registered(providers)
          /\ Constructed(p, n) = "ok" =>
                /\ n \in Registered(providers)
                /\ providers[n] = ManagedBinding(n)
                /\ GetProvider(providers, n).found
    /\ \A i \in 1..Len(trace[p]) :
          LET e == trace[p][i] IN
          (e.call \in {"llm", "llm.get_provider"}
             /\ e.val.provider_name \in ManagedNames
             /\ Constructed(p, e.val.provider_name) = "ok") =>
                /\ e.call = "llm"
                /\ e.val.provider = ManagedBinding(e.val.provider_name)

\* The OpenAI constructor raised, Gemini was constructed afterwards, and a
\* generation naming gemini was answered by it while openai is absent.
C24_Witness ==
    /\ Constructed(Server, "openai") = "fail"
    /\ Constructed(Server, "gemini") = "ok"
    /\ Registered(providers) = {"gemini"}
    /\ Len(trace[Server]) = 3
    /\ trace[Server][3].call = "llm" /\ trace[Server][3].out = "ok"
    /\ trace[Server][3].val.provider_name = "gemini"
    /\ trace[Server][3].val.provider = GeminiName

\* The step is a clear_cache(layer) call whose store calls all succeeded.
ClearDone(layer) ==
    /\ InFlight = {} /\ InFlight' = {}
    /\ result'[Server] = ClearResult(layer, TRUE)
    /\ Len(l2') <= Len(l2)

\* The layers a clear_cache(layer) call is to empty.
ClearedLayers(layer) == IF layer = Null THEN {"0", "1", "2"} ELSE {layer}

\* The step is a lookup of worker p in layer n ("0", "1" or "2").
LookupDone(p, n) ==
    /\ Len(trace'[p]) = Len(trace[p]) + 1
    /\ trace'[p][Len(trace'[p])].call = "l" \o n \o ".get"

\* C25: clear_cache with layer "0", "1" or "2" empties exactly that layer
\* and leaves the other two layers unchanged; clear_cache with no layer
\* empties all three layers, including the documents held by the Retrieval
\* Layer, so that afterwards every lookup in a cleared layer misses until
\* new content is written (the lookups of the request that follows the
\* clear do not hit in a cleared layer; for the Retrieval Layer, as long as
\* no document has been added).
C25_ClearFrame ==
    /\ [][\A layer \in {"0", "1", "2", Null} :
            ClearDone(layer) =>
                /\ l0' = IF "0" \in ClearedLayers(layer)
                         THEN [k \in Keys |-> NoEntry] ELSE l0
                /\ l1' = IF "1" \in ClearedLayers(layer) THEN NoPoints ELSE l1
                /\ l2' = IF "2" \in ClearedLayers(layer) THEN << >> ELSE l2]_vars
    /\ [][\A p \in Procs, n \in {"0", "1", "2"} :
            (/\ LookupDone(p, n)
             /\ result[Server].status = "cleared"
             /\ n \in ClearedLayers(result[Server].cache_layer)
             /\ (n = "2" => l2 = << >>)) =>
                trace'[p][Len(trace'[p])].out # "hit"]_vars

\* Layer 1 alone was cleared after qa had been answered and cached: the
\* Exact Layer still holds qa and the documents are still there, and the
\* paraphrase qb, which would have matched qa's point, misses in Layer 1.
C25_Witness ==
    /\ result[Server] = ClearResult("1", TRUE)
    /\ l0[GenerateKey("qa")] # NoEntry
    /\ l2 # << >>
    /\ query[Server] = "qb"
    /\ Len(trace[Server]) = 2
    /\ trace[Server][2].call = "l1.get" /\ trace[Server][2].out = "miss"
    /\ l1 = NoPoints

\* The step is a health_check call of worker p.
HealthDone(p) ==
    /\ trace'[p] # trace[p]
    /\ Len(trace'[p]) = 1
    /\ trace'[p][1].call = "health_check"

\* C26: each layer's health check never raises: it returns false when the
\* backing store's ping or collection listing fails and true otherwise, and
\* the coordinator's health report contains one such boolean per layer plus
\* the list of currently registered provider names.
C26_HealthReport ==
    [][\A p \in Procs :
          HealthDone(p) =>
              LET e == trace'[p][1]
                  report == e.val.report
                  pings == e.val.pings
              IN  /\ e.out = "ok"
                  /\ DOMAIN report = {"layer0_redis", "layer1_qdrant",
                                      "layer2_qdrant", "llm_providers"}
                  /\ report.layer0_redis = (pings[1] # "fail")
                  /\ report.layer1_qdrant = (pings[2] # "fail")
                  /\ report.layer2_qdrant = (pings[3] # "fail")
                  /\ report.llm_providers =
                        {n \in DOMAIN providers : providers[n] # Null}]_vars

\* With Redis down and openai unregistered, the report says so: layer 0 is
\* unhealthy, the vector layers are healthy, and dummy is the one provider.
C26_Witness ==
    /\ Len(trace[Server]) = 1
    /\ trace[Server][1].call = "health_check"
    /\ trace[Server][1].val.pings = <<"fail", "ok", "ok">>
    /\ trace[Server][1].val.report =
          [layer0_redis |-> FALSE, layer1_qdrant |-> TRUE,
           layer2_qdrant |-> TRUE, llm_providers |-> {"dummy"}]
    /\ providers["openai"] = Null

\* The step is a delete(q) call of worker p that Redis carried out.
DeleteDone(p, q) ==
    /\ Len(trace'[p]) = Len(trace[p]) + 1
    /\ trace'[p][Len(trace'[p])].call = "l0.delete"
    /\ trace'[p][Len(trace'[p])].val.query = q

\* C27: after Exact-Layer delete(q), get(q) returns absent until the next
\* set(q, .); delete(q) leaves the entry of every other query unchanged, and
\* deleting a query that has no entry changes nothing.
C27_DeleteFrame ==
    /\ [](\A p \in Procs :
            \A i, j \in 1..Len(trace[p]) :
                (/\ i < j
                 /\ trace[p][i].call = "l0.delete"
                 /\ trace[p][j].call = "l0.get"
                 /\ trace[p][j].val.query = trace[p][i].val.query
                 /\ \A k \in i..j : trace[p][k].call # "l0.set") =>
                    /\ trace[p][j].out = "miss"
                    /\ trace[p][j].val.response = Null)
    /\ [][\A p \in Procs, q \in Queries :
            DeleteDone(p, q) =>
                /\ l0'[GenerateKey(q)] = NoEntry
                /\ \A o \in Queries \ {q} : l0'[GenerateKey(o)] = l0[GenerateKey(o)]
                /\ l0[GenerateKey(q)] = NoEntry => l0' = l0]_vars

\* A query was set and read back, then deleted, and the next get found
\* nothing although its TTL had not run out.
C27_Witness ==
    \E p \in Procs :
        /\ AfterSet(p)
        /\ Len(trace[p]) = 4
        /\ trace[p][2].call = "l0.get" /\ trace[p][2].out = "hit"
        /\ trace[p][2].val.query = trace[p][1].val.query
        /\ trace[p][3].call = "l0.delete"
        /\ trace[p][3].val.query = trace[p][1].val.query
        /\ trace[p][4].call = "l0.get" /\ trace[p][4].out = "miss"
        /\ trace[p][4].val.query = trace[p][1].val.query
        /\ \E o \in Queries : l0[GenerateKey(o)] # NoEntry

\* How many calls of the given kinds a request has issued.
CallCount(tr, calls) == Cardinality({i \in 1..Len(tr) : tr[i].call \in calls})

\* C28: no automatic retries: within one query the coordinator issues at
\* most one lookup per layer, at most one generation call and at most one
\* set per caching layer, and a call that failed is never re-issued.
C28_NoRetries ==
    \A p \in Procs :
        /\ \A c \in {"l0.get", "l1.get", "l2.get", "l0.set", "l1.set"} :
              CallCount(trace[p], {c}) <= 1
        /\ CallCount(trace[p], {"llm", "llm.get_provider"}) <= 1
        /\ \A i, j \in 1..Len(trace[p]) :
              (i < j /\ trace[p][i].out \in {"fail", "raise"}) =>
                  trace[p][j].call # trace[p][i].call

\* A request whose Semantic-Layer search and Semantic-Layer set both failed
\* was answered all the same, each call having been issued once.
C28_Witness ==
    \E p \in Procs :
        /\ pc[p] = "done"
        /\ result[p].status = "ok"
        /\ \E i, j \in 1..Len(trace[p]) :
              /\ trace[p][i].call = "l1.get" /\ trace[p][i].out = "fail"
              /\ trace[p][j].call = "l1.set" /\ trace[p][j].out = "fail"
        /\ CallCount(trace[p], {"llm"}) = 1
        /\ Len(trace[p]) = 6

\* The step belongs to a query: a request starts, executes a statement of
\* query(), or is handed back.
QueryStep == pc' # pc

\* C29: no query, on any path (Exact hit, Semantic hit, retrieval-grounded
\* generation, full miss, or error), adds, modifies or removes anything in
\* the Retrieval Layer; its contents change only through the ingestion and
\* clear operations, which run between requests.
C29_QueryLeavesRetrieval ==
    [][/\ QueryStep => l2' = l2
       /\ l2' # l2 => (InFlight = {} /\ pc' = pc)]_vars

\* A request grounded on retrieved documents was answered and the layer
\* holds the same chunks as the documents it was given.
C29_Witness ==
    \E p \in Procs :
        /\ pc[p] = "done"
        /\ result[p].status = "ok"
        /\ result[p].rag_documents > 0
        /\ result[p].rag_documents = Len(documents[p])
        /\ \A a \in 1..Len(documents[p]) :
              \E i \in 1..Len(l2) : l2[i].content = documents[p][a].content

\* The calls of a request that write to a store.
Writes == {"l0.set", "l1.set"}

\* C30: a query that terminates with a Semantic-Layer hit does not invoke
\* the Generation Gateway and performs exactly one write: an Exact-Layer set
\* keyed by the incoming query (not the originally stored query) with the
\* matched point's response; the Semantic and Retrieval layers are
\* unchanged.  The two lookups that precede the write change no store, and
\* the answering step writes the one Exact-Layer entry and nothing else.
C30_SemanticHitFrame ==
    [][\A p \in Procs :
          /\ (pc[p] \in {"l0get", "l1get"} /\ pc'[p] # pc[p]) =>
                 <<l0, l1, l2>>' = <<l0, l1, l2>>
          /\ (Completes(p) /\ result'[p].status = "ok"
                 /\ result'[p].cache_layer = Layer1Name) =>
                 LET tr == trace'[p] IN
                 /\ CallCount(tr, {"llm", "llm.get_provider"}) = 0
                 /\ ~result'[p].llm_called
                 /\ CallCount(tr, Writes) = 1
                 /\ [i \in 1..Len(tr) |-> tr[i].call] = <<"l0.get", "l1.get", "l0.set">>
                 /\ tr[2].out = "hit"
                 /\ tr[3].val = tr[2].val
                 /\ result'[p].response = tr[2].val
                 /\ l0' = [l0 EXCEPT ![GenerateKey(query[p])] =
                               [value |-> tr[2].val, ttl |-> CacheTTL]]
                 /\ l1' = l1
                 /\ l2' = l2]_vars

\* Query qb ended as a Semantic-Layer hit on the point stored for qa: the
\* Exact Layer holds the response under qb, and the Semantic Layer has no
\* point for qb.
C30_Witness ==
    \E p \in Procs :
        /\ pc[p] = "done"
        /\ query[p] = "qb"
        /\ result[p].status = "ok"
        /\ result[p].cache_layer = Layer1Name
        /\ l0[GenerateKey("qb")].value = result[p].response
        /\ \A r \in Responses : l1[<<"qb", r>>] = 0
        /\ l1[<<"qa", result[p].response>>] > 0
        /\ CallCount(trace[p], Writes) = 1

\* The terminal states of a query: one of the four responses, or an error
\* handed to the caller.
Terminal(p) ==
    \/ result[p].status = "error"
    \/ /\ result[p].status = "ok"
       \/ /\ result[p].cache_layer = Layer0Name
             /\ result[p].cache_hit /\ ~result[p].llm_called
          \/ /\ result[p].cache_layer = Layer1Name
             /\ result[p].cache_hit /\ ~result[p].llm_called
          \/ /\ result[p].cache_layer = Layer2Name
             /\ result[p].llm_called /\ result[p].rag_documents > 0
          \/ /\ result[p].cache_layer = Null
             /\ ~result[p].cache_hit /\ result[p].llm_called

\* C31: every query eventually reaches a terminal state, one of the four
\* responses (Exact hit, Semantic hit, retrieval-grounded generation,
\* full-miss generation) or an error surfaced to the caller, provided each
\* backing-store, embedding and generation call returns or fails; no step of
\* the coordinator loops or waits on another query: a query that has not
\* ended can always take its next step, whatever the other query is doing,
\* and it ends after a bounded number of calls.
C31_QueryTerminates ==
    /\ \A p \in Procs :
          (pc[p] \notin {"idle", "done"}) ~> (pc[p] = "done" /\ Terminal(p))
    /\ [](\A p \in Procs :
            /\ pc[p] = "done" => Terminal(p)
            /\ pc[p] \notin {"idle", "done"} => ENABLED Work(p)
            /\ Len(trace[p]) <= 6)

\* Two queries ran side by side: one ended with an error handed to the
\* caller, the other with a generated response after missing every layer.
C31_Witness ==
    \E p, o \in Procs :
        /\ pc[p] = "done" /\ pc[o] = "done"
        /\ result[p].status = "error"
        /\ result[o].status = "ok"
        /\ result[o].cache_layer = Null
        /\ result[o].llm_called

\* Worker p executes a lookup or a write-back of the Semantic Layer.
SemanticUse(p) ==
    /\ pc[p] \in {"l1get", "l1set_miss", "l1set_rag"}
    /\ pc'[p] # pc[p]

LastEvent(p) == trace[p][Len(trace[p])]

\* C32: the Semantic Layer's collection is created lazily and idempotently:
\* whenever the layer is used while the collection is absent, the collection
\* is created; a create is issued only after an existence check that found
\* the collection absent; and an instance that loses the race to create it
\* ignores the "already exists" error and goes on with the collection that
\* exists.
C32_LazyIdempotentCreate ==
    /\ [][\A p \in Procs :
            (SemanticUse(p) /\ collections[SemanticCollection] = Absent)
                => collections'[SemanticCollection] # Absent]_vars
    /\ [](\A p \in Procs :
            pc[p] = CreateAt(SemanticCollection) =>
                /\ LastEvent(p).call = "get_collections"
                /\ LastEvent(p).out = "ok")
    /\ [](\A p \in Procs :
            (/\ Len(trace[p]) > 0
             /\ LastEvent(p).call = "create_collection"
             /\ LastEvent(p).val = SemanticCollection
             /\ LastEvent(p).out = "exists")
                => pc[p] = ListAt(RagCollection) \/ pc[p] = "done")

\* Worker p's instance has been constructed and serves requests.
InService(p) ==
    pc[p] \in {"idle", "l0get", "l1get", "l2get", "gen", "l0set_miss", "l1set_miss"}

\* C33: every vector stored in a collection has the dimensionality of the
\* configured embedding model's output, and an instance is never put in
\* service against an existing collection whose vector size differs from
\* that of its model: the mismatch is guarded against, not accepted.
\* (Qdrant only stores vectors of the collection's size, so the stored
\* vectors have the instance's dimensionality when the collection has.)
C33_DimensionGuard ==
    \A p \in Procs, name \in CollectionNames :
        (InService(p) /\ collections[name] # Absent)
            => collections[name] = VectorParams(vector_size[p][1])

\* C34: on the retrieval path the coordinator queries the Retrieval Layer
\* with a fixed top-k of 3 and builds one context that contains every
\* returned result exactly once, each with its content and relevance score,
\* in the descending-score order in which the Retrieval Layer returned them.
C34_RetrievalContext ==
    /\ [][\A p \in Procs :
            (pc[p] = "l2get" /\ pc'[p] \in {"gen", "gen_rag"}
                /\ LastEvent(p)'.out # "fail") =>
                /\ Len(documents'[p]) = Min(3, Cardinality(Qualifying(l2, query[p])))
                /\ \E s \in RagSearch(l2, query[p], 3) :
                      documents'[p] = IF s = << >> THEN << >>
                                      ELSE RagDocuments(l2, query[p], s)]_vars
    /\ [](\A p \in Procs :
            pc[p] = "gen_rag" =>
                LET context == BuildContext(documents[p]) IN
                /\ Len(context) = Len(documents[p])
                /\ \A i \in 1..Len(context) :
                      /\ context[i].n = i
                      /\ context[i].content = documents[p][i].content
                      /\ context[i].relevance = documents[p][i].score
                /\ \A i, j \in 1..Len(context) :
                      i < j => context[i].relevance >= context[j].relevance)
    /\ [][\A p \in Procs :
            (pc[p] = "gen_rag" /\ pc'[p] = "l1set_rag") =>
                /\ LastEvent(p)'.call = "llm"
                /\ LastEvent(p)'.ctx]_vars

\* A retrieval-grounded response was generated from three of four stored
\* chunks that qualify, of different scores.
C34_Witness ==
    \E p \in Procs :
        /\ pc[p] = "l1set_rag"
        /\ Cardinality(Qualifying(l2, query[p])) = 4
        /\ Len(documents[p]) = 3
        /\ documents[p][1].score > documents[p][3].score

\* The step is an add_documents_batch call of worker p.
BatchStep(p) ==
    /\ Len(trace'[p]) = 1
    /\ trace'[p][1].call = "l2.batch"
    /\ trace' # trace \/ l2' # l2

\* The number of chunks the documents docs are split into.
RECURSIVE ChunkTotal(_, _)
ChunkTotal(enable_chunking, docs) ==
    IF docs = << >> THEN 0
    ELSE Len(ChunkText(enable_chunking, Head(docs).content))
            + ChunkTotal(enable_chunking, Tail(docs))

\* C35: add_documents_batch issues exactly one upsert carrying all chunks
\* of all non-empty documents and is all-or-nothing: the collection changes
\* at most once per call; if the upsert fails (or the call fails before it)
\* no chunk of any document is stored, and after a failed upsert an empty
\* id list is returned; otherwise every chunk of every non-empty document
\* is stored.
C35_BatchAllOrNothing ==
    [][\A p \in Procs :
          BatchStep(p) =>
              LET call == trace'[p][1].val
                  out == trace'[p][1].out
                  kept == NonEmptyDocs(call.documents)
              IN  /\ out \in {"ok", "fail", "raise"}
                  /\ out = "ok" =>
                        /\ Len(l2') = Len(l2) + ChunkTotal(call.enable_chunking, kept)
                        /\ SubSeq(l2', 1, Len(l2)) = l2
                        /\ Len(call.doc_ids) = Len(kept)
                        /\ \A j \in 1..Len(kept) :
                              Len(ChunksOf(l2', call.doc_ids[j]))
                                  = Len(ChunkText(call.enable_chunking, kept[j].content))
                  /\ out # "ok" => l2' = l2
                  /\ out = "fail" => call.doc_ids = << >>]_vars

\* The upsert of a batch with a document failed after an earlier batch had
\* been stored: the collection still holds the earlier chunk only and no id
\* came back.
C35_Witness ==
    \E p \in Procs :
        /\ Len(trace[p]) = 1
        /\ trace[p][1].call = "l2.batch" /\ trace[p][1].out = "fail"
        /\ \E j \in 1..Len(trace[p][1].val.documents) :
              trace[p][1].val.documents[j].content = "da"
        /\ trace[p][1].val.doc_ids = << >>
        /\ Len(l2) = 1

\* The positions of the lookups and of the generation call of a query.
BeforeWriteBack == {"l0get", "l1get", "l2get", "gen", "gen_rag"}

\* The calls of worker p's request in which generation, or the lookup of
\* the provider, failed.
FailedGeneration(p) ==
    {i \in 1..Len(trace[p]) :
        /\ trace[p][i].call \in {"llm", "llm.get_provider"}
        /\ trace[p][i].out = "raise"}

\* C36: when generation fails, or the provider lookup fails, on the
\* retrieval-grounded or full-miss path, no write-back is performed and the
\* Exact, Semantic and Retrieval layers are left exactly as they were
\* before the query: the failing call is the last call of the request, the
\* request ends with an error, the calls before it are the three lookups,
\* and neither a lookup nor the generation step changes a store.
C36_FailedGenerationWritesNothing ==
    /\ [](\A p \in Procs :
            FailedGeneration(p) # {} =>
                /\ FailedGeneration(p) = {Len(trace[p])}
                /\ pc[p] = "done"
                /\ result[p].status = "error"
                /\ CallCount(trace[p], Writes) = 0
                /\ [i \in 1..(Len(trace[p]) - 1) |-> trace[p][i].call]
                       = <<"l0.get", "l1.get", "l2.get">>)
    /\ [][\A p \in Procs :
            (pc[p] \in BeforeWriteBack /\ pc'[p] # pc[p]) =>
                <<l0, l1, l2>>' = <<l0, l1, l2>>]_vars

\* A retrieval-grounded generation failed: the request ended with an error,
\* the documents it retrieved are still stored and neither cache holds
\* anything for the query.
C36_Witness ==
    \E p \in Procs :
        /\ pc[p] = "done"
        /\ result[p].status = "error"
        /\ Len(trace[p]) = 4
        /\ trace[p][4].call = "llm" /\ trace[p][4].out = "raise"
        /\ trace[p][4].ctx
        /\ l2 # << >>
        /\ ExactGet(l0, query[p]) = Null
        /\ PointCount(l1) = 0

\* The request of worker p names a provider that is not registered.
NamesUnregistered(p) ==
    /\ Truthy(llm_provider[p])
    /\ llm_provider[p] \notin Registered(providers)

\* C37: the requested provider name is resolved only when generation is
\* needed: the provider is looked up only after the Exact and Semantic
\* lookups have both missed (and the Retrieval lookup has been made); a
\* request naming an unregistered provider that is answered is answered
\* from the Exact or the Semantic Layer without any lookup of the name; and
\* one that fails on the name fails at the provider lookup, as the last
\* call, with the name in the error.
C37_ProviderResolvedLate ==
    \A p \in Procs :
        /\ \A i \in 1..Len(trace[p]) :
              trace[p][i].call \in {"llm", "llm.get_provider"} =>
                  /\ i = 4
                  /\ trace[p][1].call = "l0.get" /\ trace[p][1].out = "miss"
                  /\ trace[p][2].call = "l1.get"
                  /\ trace[p][2].out \in {"miss", "fail"}
                  /\ trace[p][3].call = "l2.get"
        /\ (pc[p] = "done" /\ NamesUnregistered(p) /\ result[p].status = "ok") =>
              /\ result[p].cache_hit
              /\ result[p].cache_layer \in {Layer0Name, Layer1Name}
              /\ ~result[p].llm_called
              /\ CallCount(trace[p], {"llm", "llm.get_provider"}) = 0
        /\ (pc[p] = "done" /\ result[p].detail # NoDetail) =>
              /\ result[p].status = "error"
              /\ LastEvent(p).call = "llm.get_provider"
              /\ LastEvent(p).out = "raise"
              /\ result[p].detail.name =
                     (IF Truthy(llm_provider[p]) THEN llm_provider[p] ELSE DefaultLLM)
              /\ result[p].detail.name \notin Registered(providers)

\* A request naming the unregistered provider was answered by the Semantic
\* Layer.
C37_Witness ==
    \E p \in Procs :
        /\ pc[p] = "done"
        /\ llm_provider[p] = "ghost"
        /\ "ghost" \notin Registered(providers)
        /\ result[p].status = "ok"
        /\ result[p].cache_layer = Layer1Name
        /\ Nominal(trace[p])

\* A request naming the unregistered provider failed on the name after the
\* three lookups had missed.
C37_WitnessNotFound ==
    \E p \in Procs :
        /\ pc[p] = "done"
        /\ llm_provider[p] = "ghost"
        /\ result[p].status = "error"
        /\ result[p].detail.name = "ghost"
        /\ Len(trace[p]) = 4

ClearCompleted(p, name) ==
    /\ pc[p] = "done"
    /\ Len(trace[p]) > 0
    /\ trace[p][1].call = "delete_collection"
    /\ trace[p][1].val = name
    /\ \A i \in 1..Len(trace[p]) : trace[p][i].out = "ok"

\* The instances constructed so far were configured with the same model.
SameModel ==
    \A a, b \in Procs :
        (vector_size[a] # Unset /\ vector_size[b] # Unset)
            => vector_size[a] = vector_size[b]

\* C39: a query running concurrently with a clear of the Semantic or the
\* Retrieval Layer never fails because of the clear: a lookup that falls
\* between the drop and the re-creation of the collection is a miss (the
\* only error a lookup or a write-back can raise is that of its embedding,
\* and the request can always go on), a Semantic write-back in that window
\* is dropped without raising and the response is returned; and when a
\* clear whose calls succeeded has completed, the collection exists again
\* and the instances, configured with the same model, can use it.
C39_ClearWindow ==
    /\ [][\A p \in Procs :
            /\ (/\ pc[p] = "l1get" /\ pc'[p] # pc[p]
                /\ collections[SemanticCollection] = Absent
                /\ LastEvent(p)'.out # "raise") =>
                  /\ pc'[p] = "l2get"
                  /\ response'[p] = Null
            /\ (/\ pc[p] = "l2get" /\ pc'[p] # pc[p]
                /\ collections[RagCollection] = Absent
                /\ LastEvent(p)'.out # "raise") =>
                  /\ pc'[p] = "gen"
                  /\ documents'[p] = << >>
            /\ (/\ pc[p] = "l1set_miss" /\ pc'[p] # pc[p]
                /\ collections[SemanticCollection] = Absent
                /\ LastEvent(p)'.out # "raise") =>
                  /\ pc'[p] = "done"
                  /\ result'[p].status = "ok"
                  /\ result'[p].response = response[p]
                  /\ l1' = l1]_vars
    /\ [](\A p \in Procs :
            /\ pc[p] = "l1get" => ENABLED (L1Get(p) /\ pc'[p] = "l2get")
            /\ pc[p] = "l2get" => ENABLED (L2Get(p) /\ pc'[p] = "gen")
            /\ pc[p] = "l1set_miss" =>
                  ENABLED (L1SetMiss(p) /\ result'[p].status = "ok"))
    /\ [](\A p \in Procs, name \in CollectionNames :
            ClearCompleted(p, name) =>
                /\ collections[name] # Absent
                /\ SameModel => \A o \in Procs :
                                   vector_size[o] # Unset => Usable(o, name))

\* While the other instance was between the drop and the re-creation of
\* the Semantic collection, a request missed at the Semantic Layer,
\* generated, and had its write-back dropped; it was answered all the
\* same.
C39_Witness ==
    \E p, o \in Procs :
        /\ pc[p] = "done"
        /\ result[p].status = "ok"
        /\ Len(trace[p]) = 6
        /\ trace[p][2].call = "l1.get" /\ trace[p][2].out = "fail"
        /\ trace[p][6].call = "l1.set" /\ trace[p][6].out = "fail"
        /\ pc[o] \in {ListAt(SemanticCollection), CreateAt(SemanticCollection)}
        /\ trace[o][1].call = "delete_collection"
        /\ collections[SemanticCollection] = Absent

\* A clear of the Semantic Layer completed while the other instance was in
\* the middle of a request.
C39_WitnessCleared ==
    \E p, o \in Procs :
        /\ ClearCompleted(p, SemanticCollection)
        /\ Len(trace[p]) = 3
        /\ pc[o] \in {"l1get", "l2get", "gen", "l0set_miss", "l1set_miss"}

\* The step is a register_custom_provider call of worker p.
RegisterStep(p) ==
    /\ Len(trace'[p]) = 1
    /\ trace'[p][1].call = "register_custom_provider"
    /\ trace' # trace \/ providers' # providers

\* C40: register_custom_provider called without any binding (no chat-model
\* object, no endpoint, no function) raises to the caller and leaves the
\* registry unchanged, a provider bound earlier to the same name included;
\* when bindings are supplied the call succeeds, the name is bound to a
\* provider that uses exactly one of them, the first supplied in the order
\* object, endpoint, function, and every other name keeps its provider.
C40_RegisterCustomBinding ==
    [][\A p \in Procs :
          RegisterStep(p) =>
              LET call == trace'[p][1].val
                  name == call.provider_name
                  none == /\ call.llm_instance = Null
                          /\ call.api_endpoint = Null
                          /\ call.custom_function = Null
                  used == IF call.llm_instance # Null
                          THEN <<"langchain", call.llm_instance>>
                          ELSE IF call.api_endpoint # Null
                          THEN <<"api", call.api_endpoint>>
                          ELSE <<"function", call.custom_function>>
              IN  /\ none => /\ trace'[p][1].out = "raise"
                             /\ providers' = providers
                  /\ ~none =>
                        /\ trace'[p][1].out = "ok"
                        /\ providers'[name] = CustomProvider(used[1], used[2])
                        /\ \A n \in DOMAIN providers \ {name} :
                              providers'[n] = providers[n]]_vars

\* A registration without any binding was refused while the name was bound
\* to a provider registered earlier with an endpoint.
C40_Witness ==
    \E p \in Procs :
        /\ Len(trace[p]) = 1
        /\ trace[p][1].call = "register_custom_provider"
        /\ trace[p][1].out = "raise"
        /\ \E e \in ApiEndpoints \ {Null} :
              providers[trace[p][1].val.provider_name] = CustomProvider("api", e)

\* A registration with an endpoint and a function, and no object, bound the
\* name to the endpoint.
C40_WitnessSeveral ==
    \E p \in Procs :
        /\ Len(trace[p]) = 1
        /\ trace[p][1].call = "register_custom_provider"
        /\ trace[p][1].out = "ok"
        /\ trace[p][1].val.llm_instance = Null
        /\ trace[p][1].val.api_endpoint # Null
        /\ trace[p][1].val.custom_function # Null
        /\ providers[trace[p][1].val.provider_name]
               = CustomProvider("api", trace[p][1].val.api_endpoint)

====
